---- MODULE Spec2Model ----
(***************************************************************************)
(* Rigid-body physics step of physics_system (game/systems/physics-system) *)
(* and rigid_body (engine/physics/kinematics/rigid-body), together         *)
(* with physics_system::trace and event::queue (engine/event/queue).       *)
(*                                                                         *)
(* Scalars of type float are modelled as rationals <<num, den>> in lowest  *)
(* terms with den > 0, rounded to a binary grid; <<0, 0>> is the result of *)
(* a division by zero.  Vectors are triples of rationals and quaternions   *)
(* are 4-tuples <<w, x, y, z>> of rationals.                               *)
(***************************************************************************)
EXTENDS Integers, Sequences, FiniteSets, TLC

VARIABLES
    bodies,                     \* registry view<rigid_body_component>, in iteration order
    constraints,                \* registry view<rigid_body_constraint_component>
    m_broad_phase_pairs,        \* physics_system::m_broad_phase_pairs
    m_narrow_phase_manifolds,   \* physics_system::m_narrow_phase_manifolds
    pc,                         \* position inside physics_system::update
    dt,                         \* argument dt of the running update call
    steps,                      \* number of completed update calls
    phase_log,                  \* phases the running (or last) update call has finished
    dispatch_log,               \* table cells indexed by detect_collisions_narrow
    contact_log,                \* per-contact record of resolve_collisions
    correction_log,             \* per-contact record of correct_positions
    transforms,                 \* transform_component of each entity (present, local)
    scene_objects,              \* scene_component object transform of each entity
    interpolate_log,            \* argument alpha of the last interpolate call, if any
    manifold_history,           \* manifold count of every narrow phase that returned
    trace_log,                  \* arguments and result of the last trace call, if any
    m_messages,                 \* event::queue::m_messages, front first
    published,                  \* number of enqueue calls so far
    delivered,                  \* messages dispatched to the subscribers, in order
    flush_log,                  \* messages dispatched by the running (or last) flush
    flushing,                   \* a call of event::queue::flush is running
    integrate_workers           \* the parallel workers of physics_system::integrate

\* The state of the event queue and of its subscribers.
queue_vars == <<m_messages, published, delivered, flush_log, flushing>>

\* The record of the last ray trace.
trace_vars == <<trace_log>>

physics_vars == <<bodies, constraints, m_broad_phase_pairs, m_narrow_phase_manifolds,
                  pc, dt, steps, phase_log, dispatch_log, contact_log, correction_log,
                  transforms, scene_objects, interpolate_log, manifold_history>>

worker_vars == <<integrate_workers>>

vars == <<physics_vars, trace_vars, queue_vars, worker_vars>>

(***************************************************************************)
(* Bounds of the model.                                                    *)
(***************************************************************************)
MaxBodies == 3
MaxPairBodies == 2
MaxConstraints == 1
MaxSteps == 1
MaxInterpolateBodies == 1
MaxTraceBodies == 2
MaxShapeBodies == 2
MaxMessages == 4
MaxRepeatBodies == 2
MaxRepeatSteps == 2
MaxSpinBodies == 2
MaxParallelBodies == 3
MaxParallelSteps == 1
MaxStaticBodies == 2
MaxStaticSteps == 2

\* The element of a singleton set: Only({e(x) : x \in {v}}) evaluates v once
\* and e with x bound to the result.
Only(S) == CHOOSE x \in S : TRUE

(***************************************************************************)
(* float arithmetic.  A value is a rational <<num, den>> in lowest terms   *)
(* with den > 0.  Sums, products and quotients are exact as long as the    *)
(* result has a denominator of at most 2^12; a result that does not fit is *)
(* rounded down to a multiple of 2^-12.                                    *)
(***************************************************************************)
\* Significand bits of float (IEEE 754 binary32).
FloatPrecision == 24

RECURSIVE Pow2(_)
Pow2(n) == IF n = 0 THEN 1 ELSE 2 * Pow2(n - 1)

GridBits == FloatPrecision \div 2
Grid == Pow2(GridBits)

Abs(n) == IF n < 0 THEN -n ELSE n

RECURSIVE GCD(_, _)
GCD(a, b) == IF b = 0 THEN a ELSE GCD(b, a % b)

\* The result of a division by zero (an infinity or a NaN): denominator 0.
NaN == <<0, 0>>

\* n / d in lowest terms.
Reduce(n, d) ==
    IF d = 0 THEN NaN ELSE
    Only({<<((IF d < 0 THEN -1 ELSE 1) * n) \div g, Abs(d) \div g>> :
          g \in {GCD(Abs(n), Abs(d))}})

\* floor(r / d * 2^k) for 0 <= r < d, one binary digit at a time.
RECURSIVE ScaleBits(_, _, _)
ScaleBits(r, d, k) ==
    IF k = 0 THEN 0
    ELSE IF 2 * r >= d THEN Pow2(k - 1) + ScaleBits(2 * r - d, d, k - 1)
    ELSE ScaleBits(2 * r, d, k - 1)

\* floor(a * 2^k)
ScaleFloor(a, k) == (a[1] \div a[2]) * Pow2(k) + ScaleBits(a[1] % a[2], a[2], k)

\* The value a, rounded if its denominator does not fit.
Fit(a) == IF a[2] <= Grid THEN a ELSE Reduce(ScaleFloor(a, GridBits), Grid)

Rat(n, d) == Fit(Reduce(n, d))

Q(n) == <<n, 1>>
Zero == <<0, 1>>
One == <<1, 1>>

\* Sums and products cancel common factors first, so that intermediate
\* integers stay small.
RAdd(a, b) ==
    IF a[2] = 0 \/ b[2] = 0 THEN NaN ELSE
    Only({Rat(a[1] * (b[2] \div g) + b[1] * (a[2] \div g), (a[2] \div g) * b[2]) :
          g \in {GCD(a[2], b[2])}})
RSub(a, b) == RAdd(a, <<-b[1], b[2]>>)
RMul(a, b) ==
    IF a[2] = 0 \/ b[2] = 0 THEN NaN ELSE
    Only({Rat((a[1] \div g1) * (b[1] \div g2), (a[2] \div g2) * (b[2] \div g1)) :
          g1 \in {GCD(Abs(a[1]), b[2])}, g2 \in {GCD(Abs(b[1]), a[2])}})
RDiv(a, b) ==
    IF b[1] = 0 THEN NaN
    ELSE RMul(a, IF b[1] < 0 THEN <<-b[2], -b[1]>> ELSE <<b[2], b[1]>>)
RNeg(a) == <<-a[1], a[2]>>
RLt(a, b) == a[1] * b[2] < b[1] * a[2]
RLe(a, b) == a[1] * b[2] <= b[1] * a[2]
RGt(a, b) == RLt(b, a)
RGe(a, b) == RLe(b, a)
RAbs(a) == <<Abs(a[1]), a[2]>>
RMax(a, b) == IF RLt(a, b) THEN b ELSE a
RMin(a, b) == IF RLt(b, a) THEN b ELSE a

\* Largest k with k * k <= n, found by bisection on lo..hi.
RECURSIVE ISqrtIn(_, _, _)
ISqrtIn(n, lo, hi) ==
    IF lo >= hi THEN lo
    ELSE IF ((lo + hi + 1) \div 2) * ((lo + hi + 1) \div 2) <= n
         THEN ISqrtIn(n, (lo + hi + 1) \div 2, hi)
         ELSE ISqrtIn(n, lo, ((lo + hi + 1) \div 2) - 1)

ISqrt(n) == ISqrtIn(n, 0, IF n < 46340 THEN n ELSE 46340)

\* std::sqrt: exact on squares of rationals, otherwise rounded down to a
\* multiple of 2^-10.
Sqrt(a) ==
    Only({IF rn * rn = a[1] /\ rd * rd = a[2]
          THEN <<rn, rd>>
          ELSE Reduce(ISqrt(ScaleFloor(a, 2 * (GridBits - 2))), Pow2(GridBits - 2)) :
          rn \in {ISqrt(a[1])}, rd \in {ISqrt(a[2])}})

(***************************************************************************)
(* math::vector<float, 3>                                                  *)
(***************************************************************************)
V(x, y, z) == <<Q(x), Q(y), Q(z)>>
VZero == <<Zero, Zero, Zero>>
VAdd(a, b) == <<RAdd(a[1], b[1]), RAdd(a[2], b[2]), RAdd(a[3], b[3])>>
VSub(a, b) == <<RSub(a[1], b[1]), RSub(a[2], b[2]), RSub(a[3], b[3])>>
VNeg(a) == <<RNeg(a[1]), RNeg(a[2]), RNeg(a[3])>>
VScale(a, s) == <<RMul(a[1], s), RMul(a[2], s), RMul(a[3], s)>>
VDivS(a, s) == <<RDiv(a[1], s), RDiv(a[2], s), RDiv(a[3], s)>>
VMul(a, b) == <<RMul(a[1], b[1]), RMul(a[2], b[2]), RMul(a[3], b[3])>>
dot(a, b) == RAdd(RAdd(RMul(a[1], b[1]), RMul(a[2], b[2])), RMul(a[3], b[3]))
cross(a, b) ==
    <<RSub(RMul(a[2], b[3]), RMul(a[3], b[2])),
      RSub(RMul(a[3], b[1]), RMul(a[1], b[3])),
      RSub(RMul(a[1], b[2]), RMul(a[2], b[1]))>>
sqr_length(a) == dot(a, a)

(***************************************************************************)
(* math::quaternion<float>, <<w, x, y, z>>                                 *)
(***************************************************************************)
QIdentity == <<One, Zero, Zero, Zero>>
QVec(q) == <<q[2], q[3], q[4]>>
QAdd(a, b) == <<RAdd(a[1], b[1]), RAdd(a[2], b[2]), RAdd(a[3], b[3]), RAdd(a[4], b[4])>>
QSub(a, b) == <<RSub(a[1], b[1]), RSub(a[2], b[2]), RSub(a[3], b[3]), RSub(a[4], b[4])>>
QScale(a, s) == <<RMul(a[1], s), RMul(a[2], s), RMul(a[3], s), RMul(a[4], s)>>
QDot(a, b) ==
    RAdd(RAdd(RMul(a[1], b[1]), RMul(a[2], b[2])),
         RAdd(RMul(a[3], b[3]), RMul(a[4], b[4])))
\* Hamilton product a * b.
QMul(a, b) ==
    Only({<<RSub(RMul(a[1], b[1]), dot(QVec(a), QVec(b))), v[1], v[2], v[3]>> :
          v \in {VAdd(VAdd(VScale(QVec(b), a[1]), VScale(QVec(a), b[1])),
                      cross(QVec(a), QVec(b)))}})
QNormalize(q) ==
    Only({<<RDiv(q[1], len), RDiv(q[2], len), RDiv(q[3], len), RDiv(q[4], len)>> :
          len \in {Sqrt(QDot(q, q))}})
\* quaternion * vector: v + 2 w (u x v) + 2 u x (u x v), u the vector part.
QRotate(q, v) ==
    Only({VAdd(VAdd(v, VScale(t, q[1])), cross(QVec(q), t)) :
          t \in {VScale(cross(QVec(q), v), Q(2))}})

(***************************************************************************)
(* math::transform<float>                                                  *)
(***************************************************************************)
Transform(t, r, s) == [translation |-> t, rotation |-> r, scale |-> s]
TIdentity == Transform(VZero, QIdentity, V(1, 1, 1))
\* transform * vector
TApply(t, v) == VAdd(t.translation, QRotate(t.rotation, VMul(v, t.scale)))

(***************************************************************************)
(* physics::collider_type, physics::collider and its material.             *)
(* A collider record carries the fields of every variant; "type" says      *)
(* which of them are meaningful, "none" stands for a null collider.        *)
(***************************************************************************)
TableTypes == {"plane", "sphere", "box", "capsule"}
ColliderTypes == TableTypes \cup {"mesh"}

\* physics::friction_combine_mode / restitution_combine_mode, by enum value.
CombineAverage == 0
CombineMinimum == 1
CombineMultiply == 2
CombineMaximum == 3

Material(sf, df, e, fmode, rmode) ==
    [static_friction |-> sf, dynamic_friction |-> df, restitution |-> e,
     friction_combine_mode |-> fmode, restitution_combine_mode |-> rmode]

DefaultMaterial == Material(One, Rat(1, 2), Zero, CombineAverage, CombineAverage)

Collider(type, mask, mat) ==
    [type |-> type, layer_mask |-> mask, material |-> mat,
     normal |-> V(0, 1, 0), constant |-> Zero,
     center |-> VZero, radius |-> Zero,
     min |-> VZero, max |-> VZero,
     seg_a |-> VZero, seg_b |-> VZero,
     faces |-> <<>>]

NoCollider == Collider("none", 0, DefaultMaterial)
PlaneCollider(n, c, mask, mat) ==
    [Collider("plane", mask, mat) EXCEPT !.normal = n, !.constant = c]
SphereCollider(c, r, mask, mat) ==
    [Collider("sphere", mask, mat) EXCEPT !.center = c, !.radius = r]
BoxCollider(lo, hi, mask, mat) ==
    [Collider("box", mask, mat) EXCEPT !.min = lo, !.max = hi]
CapsuleCollider(a, b, r, mask, mat) ==
    [Collider("capsule", mask, mat) EXCEPT !.seg_a = a, !.seg_b = b, !.radius = r]
MeshCollider(mask, mat) == Collider("mesh", mask, mat)
\* A mesh of horizontal strips: face k lies in the body-space plane
\* y = height and spans x_min <= x <= x_max, with normal +y.
Face(height, x_min, x_max) == [height |-> height, x_min |-> x_min, x_max |-> x_max]
MeshOf(faces, mask, mat) == [MeshCollider(mask, mat) EXCEPT !.faces = faces]

\* a & b on unsigned integers.
RECURSIVE BitAnd(_, _)
BitAnd(a, b) ==
    IF a = 0 \/ b = 0 THEN 0
    ELSE (a % 2) * (b % 2) + 2 * BitAnd(a \div 2, b \div 2)

(***************************************************************************)
(* physics::rigid_body                                                     *)
(***************************************************************************)
Inverse(x) == IF x = Zero THEN Zero ELSE RDiv(One, x)

\* A body as set_mass, set_inertia, set_transform, set_collider and
\* set_linear_momentum / set_angular_momentum leave it.
RigidBody(mass, inertia, pos, rot, col, p, l) ==
    [mass |-> mass, inverse_mass |-> Inverse(mass),
     inertia |-> inertia, inverse_inertia |-> Inverse(inertia),
     linear_momentum |-> p, angular_momentum |-> l,
     linear_velocity |-> VScale(p, Inverse(mass)),
     angular_velocity |-> VScale(l, Inverse(inertia)),
     applied_force |-> VZero, applied_torque |-> VZero,
     linear_damping |-> Zero, angular_damping |-> Zero,
     current_transform |-> Transform(pos, rot, V(1, 1, 1)),
     previous_transform |-> Transform(pos, rot, V(1, 1, 1)),
     collider |-> col]

is_static(b) == b.inverse_mass = Zero
has_collider(b) == b.collider.type # "none"
get_position(b) == b.current_transform.translation
get_orientation(b) == b.current_transform.rotation
get_transform(b) == b.current_transform
\* set_position that also records the transform it replaces as the previous one.
set_position_recording(b, p) ==
    [b EXCEPT !.previous_transform = b.current_transform, !.current_transform.translation = p]
set_position(b, p) == [b EXCEPT !.current_transform.translation = p]
get_point_velocity(b, r) == VAdd(b.linear_velocity, cross(b.angular_velocity, r))

\* apply_impulse that also takes the velocities from the new momenta.
apply_impulse_refreshing(b, impulse, r) ==
    [b EXCEPT !.linear_momentum = VAdd(@, impulse),
              !.angular_momentum = VAdd(@, cross(r, impulse)),
              !.linear_velocity = VScale(VAdd(b.linear_momentum, impulse), b.inverse_mass),
              !.angular_velocity = VScale(VAdd(b.angular_momentum, cross(r, impulse)),
                                          b.inverse_inertia)]

apply_impulse(b, impulse, r) ==
    [b EXCEPT !.linear_momentum = VAdd(@, impulse),
              !.angular_momentum = VAdd(@, cross(r, impulse))]

apply_force(b, force, r) ==
    [b EXCEPT !.applied_force = VAdd(@, force),
              !.applied_torque = VAdd(@, cross(r, force))]

\* integrate_forces with the damping factor 1 - dt, whatever the coefficients.
integrate_forces_decaying(b, h) ==
    [b EXCEPT !.linear_momentum = VScale(b.linear_momentum, RMax(Zero, RSub(One, h))),
              !.angular_momentum = VScale(b.angular_momentum, RMax(Zero, RSub(One, h))),
              !.applied_force = VZero,
              !.applied_torque = VZero]

\* rigid_body::integrate_forces
integrate_forces(b, h) ==
    Only({[b EXCEPT !.linear_momentum = p2,
                    !.angular_momentum = l2,
                    !.linear_velocity = VScale(p2, b.inverse_mass),
                    !.angular_velocity = VScale(l2, b.inverse_inertia),
                    !.applied_force = VZero,
                    !.applied_torque = VZero] :
          p2 \in {VScale(VAdd(b.linear_momentum, VScale(b.applied_force, h)),
                         RMax(Zero, RSub(One, RMul(b.linear_damping, h))))},
          l2 \in {VScale(VAdd(b.angular_momentum, VScale(b.applied_torque, h)),
                         RMax(Zero, RSub(One, RMul(b.angular_damping, h))))}})

\* integrate_velocities with the translation advanced by the momentum.
integrate_velocities_by_momentum(b, h) ==
    [b EXCEPT !.previous_transform = b.current_transform,
              !.current_transform.translation =
                  VAdd(b.current_transform.translation, VScale(b.linear_momentum, h))]

\* rigid_body::integrate_velocities
integrate_velocities(b, h) ==
    Only({[b EXCEPT !.previous_transform = b.current_transform,
                    !.current_transform.translation =
                        VAdd(b.current_transform.translation, VScale(b.linear_velocity, h)),
                    !.current_transform.rotation =
                        QNormalize(QAdd(b.current_transform.rotation,
                                        QScale(QMul(<<Zero, w[1], w[2], w[3]>>,
                                                    b.current_transform.rotation), h)))] :
          w \in {VScale(b.angular_velocity, Rat(1, 2))}})

\* integrate without the call of integrate_forces.
integrate_body_velocities_only(b, h) == integrate_velocities(b, h)

\* rigid_body::integrate: forces, then velocities.
integrate_body(b, h) == integrate_velocities(integrate_forces(b, h), h)

(***************************************************************************)
(* float addition, subtraction and product as IEEE 754 binary32 computes   *)
(* them, round to nearest even, on values that are multiples of 2^-28 of   *)
(* magnitude below 4.  rigid_body::interpolate is modelled bit for bit.    *)
(***************************************************************************)
FloatScale == Pow2(FloatPrecision + 4)

\* The value a as a count of 2^-28, and back.
ToUnits(a) == a[1] * (FloatScale \div a[2])
FromUnits(u) == Reduce(u, FloatScale)

\* The spacing of binary32 values around magnitude m: the least power of
\* two q, from q on, with m / q below 2^24.
RECURSIVE Quantum(_, _)
Quantum(m, q) == IF m \div q < Pow2(FloatPrecision) THEN q ELSE Quantum(m, 2 * q)

\* m rounded to a multiple of q, ties to the even multiple.
RoundEven(m, q) ==
    IF 2 * (m % q) < q THEN (m \div q) * q
    ELSE IF 2 * (m % q) > q THEN ((m \div q) + 1) * q
    ELSE IF (m \div q) % 2 = 0 THEN (m \div q) * q
    ELSE ((m \div q) + 1) * q

Round32(u) ==
    IF u < 0 THEN -RoundEven(-u, Quantum(-u, 1)) ELSE RoundEven(u, Quantum(u, 1))

FAdd(a, b) == FromUnits(Round32(ToUnits(a) + ToUnits(b)))
FSub(a, b) == FromUnits(Round32(ToUnits(a) - ToUnits(b)))
FMul(a, b) == FromUnits(Round32(ToUnits(Reduce(a[1] * b[1], a[2] * b[2]))))

FVAdd(a, b) == <<FAdd(a[1], b[1]), FAdd(a[2], b[2]), FAdd(a[3], b[3])>>
FVSub(a, b) == <<FSub(a[1], b[1]), FSub(a[2], b[2]), FSub(a[3], b[3])>>
FVScale(a, s) == <<FMul(a[1], s), FMul(a[2], s), FMul(a[3], s)>>

\* math::lerp: x + (y - x) * a
lerp(x, y, a) == FVAdd(x, FVScale(FVSub(y, x), a))
\* math::nlerp: normalized linear interpolation of quaternions.
nlerp(x, y, a) == QNormalize(QAdd(x, QScale(QSub(y, x), a)))

\* rigid_body::interpolate
interpolate_body(b, alpha) ==
    Transform(lerp(b.previous_transform.translation, b.current_transform.translation, alpha),
              nlerp(b.previous_transform.rotation, b.current_transform.rotation, alpha),
              lerp(b.previous_transform.scale, b.current_transform.scale, alpha))

(***************************************************************************)
(* geom::closest_point and geom::plane::distance                           *)
(***************************************************************************)
Clamp01(x) == RMax(Zero, RMin(One, x))

plane_distance(normal, constant, p) == RAdd(dot(normal, p), constant)

\* Closest point on segment ab to point c.
closest_point_segment(a, b, c) ==
    Only({IF RLe(distance_ab, Zero) THEN a
          ELSE IF RGe(distance_ab, sqr_length_ab) THEN b
          ELSE VAdd(a, VScale(VSub(b, a), RDiv(distance_ab, sqr_length_ab))) :
          distance_ab \in {dot(VSub(c, a), VSub(b, a))},
          sqr_length_ab \in {sqr_length(VSub(b, a))}})

\* The parameters <<s, t>> of the closest points of two segments with
\* directions d1, d2 and offset r, given a = d1.d1, e = d2.d2, f = d2.r,
\* c = d1.r, b = d1.d2.
segment_parameters(a, e, f, c, b) ==
    IF a = Zero /\ e = Zero THEN <<Zero, Zero>>
    ELSE IF a = Zero THEN <<Zero, Clamp01(RDiv(f, e))>>
    ELSE IF e = Zero THEN <<Clamp01(RDiv(RNeg(c), a)), Zero>>
    ELSE Only({Only({IF RLt(t0, Zero) THEN <<Clamp01(RDiv(RNeg(c), a)), Zero>>
                     ELSE IF RGt(t0, One) THEN <<Clamp01(RDiv(RSub(b, c), a)), One>>
                     ELSE <<s0, t0>> :
                     t0 \in {RDiv(RAdd(RMul(b, s0), f), e)}}) :
               s0 \in {IF RSub(RMul(a, e), RMul(b, b)) # Zero
                       THEN Clamp01(RDiv(RSub(RMul(b, f), RMul(c, e)),
                                         RSub(RMul(a, e), RMul(b, b))))
                       ELSE Zero}})

\* Closest points between segments p1q1 and p2q2, as <<on first, on second>>.
closest_point_segments(p1, q1, p2, q2) ==
    Only({<<VAdd(p1, VScale(VSub(q1, p1), st[1])), VAdd(p2, VScale(VSub(q2, p2), st[2]))>> :
          st \in {segment_parameters(dot(VSub(q1, p1), VSub(q1, p1)),
                                     dot(VSub(q2, p2), VSub(q2, p2)),
                                     dot(VSub(q2, p2), VSub(p1, p2)),
                                     dot(VSub(q1, p1), VSub(p1, p2)),
                                     dot(VSub(q1, p1), VSub(q2, p2)))}})

(***************************************************************************)
(* Narrow phase routines.  Each takes the registry bs and the indices a, b *)
(* of the bodies passed as body_a and body_b, and yields the manifolds it  *)
(* appends to m_narrow_phase_manifolds (a sequence of length 0 or 1).      *)
(***************************************************************************)
Contact(point, normal, depth) == [point |-> point, normal |-> normal, depth |-> depth]
Manifold(a, b, cs) == [body_a |-> a, body_b |-> b, contact_count |-> Len(cs), contacts |-> cs]

\* World-space plane of a plane collider: <<normal, constant>>.
world_plane(body) ==
    Only({<<n, RSub(body.collider.constant, dot(n, get_position(body)))>> :
          n \in {QRotate(get_orientation(body), body.collider.normal)}})

narrow_phase_plane_plane(bs, a, b) == <<>>

\* plane (normal, constant) against the sphere of radius at position.
plane_sphere_contact(a, b, plane, position, radius) ==
    Only({IF RGt(signed_distance, radius) THEN <<>>
          ELSE <<Manifold(a, b,
                   <<Contact(VSub(position, VScale(plane[1], radius)),
                             plane[1],
                             RAbs(RSub(signed_distance, radius)))>>)>> :
          signed_distance \in {RAdd(dot(plane[1], position), plane[2])}})

narrow_phase_plane_sphere(bs, a, b) ==
    plane_sphere_contact(a, b, world_plane(bs[a]), get_position(bs[b]),
                         bs[b].collider.radius)

\* The eight corners of a box collider, in the order of the corners array.
box_corners(col) ==
    LET lo == col.min
        hi == col.max
    IN  << <<lo[1], lo[2], lo[3]>>, <<lo[1], lo[2], hi[3]>>,
           <<lo[1], hi[2], lo[3]>>, <<lo[1], hi[2], hi[3]>>,
           <<hi[1], lo[2], lo[3]>>, <<hi[1], lo[2], hi[3]>>,
           <<hi[1], hi[2], lo[3]>>, <<hi[1], hi[2], hi[3]>> >>

plane_box_contact_limit == 4

\* The brute-force loop over corners i..8 with cs the contacts so far.
plane_box_test_strict(plane, point, signed_distance, cs) ==
    IF RLt(signed_distance, Zero)
    THEN Append(cs, Contact(point, plane[1], RAbs(signed_distance)))
    ELSE cs
\* The contacts cs after testing a corner at point with signed_distance.
plane_box_test(plane, point, signed_distance, cs) ==
    IF RLe(signed_distance, Zero)
    THEN Append(cs, Contact(point, plane[1], RAbs(signed_distance)))
    ELSE cs

RECURSIVE plane_box_loop(_, _, _, _, _)
plane_box_loop(plane, xf, corners, i, cs) ==
    IF i > 8 THEN cs
    ELSE Only({IF Len(cs1) >= plane_box_contact_limit THEN cs1
               ELSE plane_box_loop(plane, xf, corners, i + 1, cs1) :
               cs1 \in {Only({plane_box_test(plane, point,
                                             RAdd(dot(plane[1], point), plane[2]), cs) :
                              point \in {TApply(xf, corners[i])}})}})

\* plane against box without the test "if (manifold.contact_count)".
narrow_phase_plane_box_unguarded(bs, a, b) ==
    <<Manifold(a, b, plane_box_loop(world_plane(bs[a]), get_transform(bs[b]),
                                    box_corners(bs[b].collider), 1, <<>>))>>

narrow_phase_plane_box(bs, a, b) ==
    Only({IF Len(cs) > 0 THEN <<Manifold(a, b, cs)>> ELSE <<>> :
          cs \in {plane_box_loop(world_plane(bs[a]), get_transform(bs[b]),
                                 box_corners(bs[b].collider), 1, <<>>)}})

\* The contact of a capsule end point with the depth taken without std::abs.
plane_capsule_end_signed(plane, point, distance, radius) ==
    IF RLe(distance, radius)
    THEN <<Contact(VSub(point, VScale(plane[1], radius)), plane[1], RSub(distance, radius))>>
    ELSE <<>>

\* The contact of one capsule end point against the plane, if any.
plane_capsule_end(plane, point, distance, radius) ==
    IF RLe(distance, radius)
    THEN <<Contact(VSub(point, VScale(plane[1], radius)), plane[1],
                   RAbs(RSub(distance, radius)))>>
    ELSE <<>>

plane_capsule_contacts(plane, seg_a, seg_b, radius) ==
    plane_capsule_end(plane, seg_a, plane_distance(plane[1], plane[2], seg_a), radius)
    \o plane_capsule_end(plane, seg_b, plane_distance(plane[1], plane[2], seg_b), radius)

narrow_phase_plane_capsule(bs, a, b) ==
    Only({IF Len(cs) > 0 THEN <<Manifold(a, b, cs)>> ELSE <<>> :
          cs \in {plane_capsule_contacts(world_plane(bs[a]),
                                         TApply(get_transform(bs[b]), bs[b].collider.seg_a),
                                         TApply(get_transform(bs[b]), bs[b].collider.seg_b),
                                         bs[b].collider.radius)}})

narrow_phase_sphere_plane_unswapped(bs, a, b) == narrow_phase_plane_sphere(bs, a, b)
narrow_phase_sphere_plane(bs, a, b) == narrow_phase_plane_sphere(bs, b, a)

\* The manifold for closest points at distance > 0 along difference.
round_manifold(a, b, pa, ra, sum_radii, difference, distance) ==
    Only({<<Manifold(a, b,
              <<Contact(VAdd(pa, VScale(normal,
                                        RSub(ra, RMul(RSub(sum_radii, distance), Rat(1, 2))))),
                        normal,
                        RSub(sum_radii, distance))>>)>> :
          normal \in {VDivS(difference, distance)}})

\* The early return "sqr_distance > sum_radii * sum_radii".
out_of_reach_strict(sqr_distance, sum_radii) == RGe(sqr_distance, RMul(sum_radii, sum_radii))
out_of_reach(sqr_distance, sum_radii) == RGt(sqr_distance, RMul(sum_radii, sum_radii))

degenerate_never(sqr_distance) == FALSE
\* The early return "!sqr_distance" of the degenerate case.
degenerate(sqr_distance) == sqr_distance = Zero

\* The contact shared by sphere-sphere, sphere-capsule and capsule-capsule:
\* closest points pa (on A) and pb (on B), radii ra and rb.
round_contact(a, b, pa, pb, ra, rb) ==
    Only({IF out_of_reach(sqr_distance, RAdd(ra, rb)) THEN <<>>
          ELSE IF degenerate(sqr_distance) THEN <<>>
          ELSE round_manifold(a, b, pa, ra, RAdd(ra, rb), VSub(pb, pa), Sqrt(sqr_distance)) :
          sqr_distance \in {sqr_length(VSub(pb, pa))}})

narrow_phase_sphere_sphere(bs, a, b) ==
    round_contact(a, b,
                  TApply(get_transform(bs[a]), bs[a].collider.center),
                  TApply(get_transform(bs[b]), bs[b].collider.center),
                  bs[a].collider.radius, bs[b].collider.radius)

narrow_phase_sphere_box(bs, a, b) == <<>>

narrow_phase_sphere_capsule(bs, a, b) ==
    Only({round_contact(a, b, center_a,
                        closest_point_segment(
                            TApply(get_transform(bs[b]), bs[b].collider.seg_a),
                            TApply(get_transform(bs[b]), bs[b].collider.seg_b),
                            center_a),
                        bs[a].collider.radius, bs[b].collider.radius) :
          center_a \in {TApply(get_transform(bs[a]), bs[a].collider.center)}})

narrow_phase_box_plane(bs, a, b) == narrow_phase_plane_box(bs, b, a)
narrow_phase_box_sphere(bs, a, b) == <<>>
\* box against box as if both were spheres of radius 1 about their positions.
narrow_phase_box_box_as_spheres(bs, a, b) ==
    round_contact(a, b, get_position(bs[a]), get_position(bs[b]), One, One)
narrow_phase_box_box(bs, a, b) == <<>>
narrow_phase_box_capsule(bs, a, b) == <<>>
narrow_phase_capsule_plane(bs, a, b) == narrow_phase_plane_capsule(bs, b, a)
\* capsule against sphere with the manifold naming the bodies in the order of
\* the call, the capsule as body_a.
narrow_phase_capsule_sphere_in_call_order(bs, a, b) ==
    [n \in 1..Len(narrow_phase_sphere_capsule(bs, b, a)) |->
        [narrow_phase_sphere_capsule(bs, b, a)[n] EXCEPT !.body_a = a, !.body_b = b]]
narrow_phase_capsule_sphere(bs, a, b) == narrow_phase_sphere_capsule(bs, b, a)
narrow_phase_capsule_box(bs, a, b) == <<>>

narrow_phase_capsule_capsule(bs, a, b) ==
    Only({round_contact(a, b, cp[1], cp[2], bs[a].collider.radius, bs[b].collider.radius) :
          cp \in {closest_point_segments(
                      TApply(get_transform(bs[a]), bs[a].collider.seg_a),
                      TApply(get_transform(bs[a]), bs[a].collider.seg_b),
                      TApply(get_transform(bs[b]), bs[b].collider.seg_a),
                      TApply(get_transform(bs[b]), bs[b].collider.seg_b))}})

\* The cells of m_narrow_phase_table the constructor assigns.
table_populated(ta, tb) == ta \in TableTypes /\ tb \in TableTypes

\* m_narrow_phase_table[ta][tb](body_a, body_b) for a populated cell.
m_narrow_phase_table(ta, tb, bs, a, b) ==
    CASE ta = "plane"   /\ tb = "plane"   -> narrow_phase_plane_plane(bs, a, b)
      [] ta = "plane"   /\ tb = "sphere"  -> narrow_phase_plane_sphere(bs, a, b)
      [] ta = "plane"   /\ tb = "box"     -> narrow_phase_plane_box(bs, a, b)
      [] ta = "plane"   /\ tb = "capsule" -> narrow_phase_plane_capsule(bs, a, b)
      [] ta = "sphere"  /\ tb = "plane"   -> narrow_phase_sphere_plane(bs, a, b)
      [] ta = "sphere"  /\ tb = "sphere"  -> narrow_phase_sphere_sphere(bs, a, b)
      [] ta = "sphere"  /\ tb = "box"     -> narrow_phase_sphere_box(bs, a, b)
      [] ta = "sphere"  /\ tb = "capsule" -> narrow_phase_sphere_capsule(bs, a, b)
      [] ta = "box"     /\ tb = "plane"   -> narrow_phase_box_plane(bs, a, b)
      [] ta = "box"     /\ tb = "sphere"  -> narrow_phase_box_sphere(bs, a, b)
      [] ta = "box"     /\ tb = "box"     -> narrow_phase_box_box(bs, a, b)
      [] ta = "box"     /\ tb = "capsule" -> narrow_phase_box_capsule(bs, a, b)
      [] ta = "capsule" /\ tb = "plane"   -> narrow_phase_capsule_plane(bs, a, b)
      [] ta = "capsule" /\ tb = "sphere"  -> narrow_phase_capsule_sphere(bs, a, b)
      [] ta = "capsule" /\ tb = "box"     -> narrow_phase_capsule_box(bs, a, b)
      [] ta = "capsule" /\ tb = "capsule" -> narrow_phase_capsule_capsule(bs, a, b)

(***************************************************************************)
(* physics_system::detect_collisions_broad                                 *)
(***************************************************************************)
cleared_kept(list) == list
\* m_broad_phase_pairs.clear() and m_narrow_phase_manifolds.clear()
cleared(list) == <<>>

\* "Ignore pairs without a mutual layer" keeps a pair when this holds.
mutual_layer(ca, cb) == BitAnd(ca.layer_mask, cb.layer_mask) # 0

static_pair_unchecked(ba, bb) == FALSE
\* "Ignore static pairs" drops a pair when this holds.
static_pair(ba, bb) == is_static(ba) /\ is_static(bb)

inner_begin_at_first(i) == 1
\* First index of the inner loop for outer index i.
inner_begin(i) == i + 1

RECURSIVE broad_loop(_, _, _, _)
broad_loop(bs, i, j, acc) ==
    IF i > Len(bs) THEN acc
    ELSE IF ~has_collider(bs[i]) THEN broad_loop(bs, i + 1, inner_begin(i + 1), acc)
    ELSE IF j > Len(bs) THEN broad_loop(bs, i + 1, inner_begin(i + 1), acc)
    ELSE IF ~has_collider(bs[j]) THEN broad_loop(bs, i, j + 1, acc)
    ELSE IF ~mutual_layer(bs[i].collider, bs[j].collider) THEN broad_loop(bs, i, j + 1, acc)
    ELSE IF static_pair(bs[i], bs[j]) THEN broad_loop(bs, i, j + 1, acc)
    ELSE broad_loop(bs, i, j + 1, Append(acc, <<i, j>>))

broad_phase_pairs(bs) == broad_loop(bs, 1, inner_begin(1), <<>>)

(***************************************************************************)
(* physics_system::detect_collisions_narrow                                *)
(***************************************************************************)
pair_cell(bs, pair) == <<bs[pair[1]].collider.type, bs[pair[2]].collider.type>>

\* Manifolds of pairs k..last, appended to acc; a pair whose cell the
\* constructor never assigned contributes nothing.
RECURSIVE narrow_loop(_, _, _, _, _)
narrow_loop(bs, pairs, k, last, acc) ==
    IF k > last THEN acc
    ELSE IF ~table_populated(pair_cell(bs, pairs[k])[1], pair_cell(bs, pairs[k])[2])
         THEN narrow_loop(bs, pairs, k + 1, last, acc)
         ELSE Only({narrow_loop(bs, pairs, k + 1, last, acc \o ms) :
                    ms \in {m_narrow_phase_table(pair_cell(bs, pairs[k])[1],
                                                 pair_cell(bs, pairs[k])[2],
                                                 bs, pairs[k][1], pairs[k][2])}})

\* Index of the first pair whose cell is not populated, 0 if there is none.
first_bad_cell(bs, pairs) ==
    Only({IF bad = {} THEN 0 ELSE CHOOSE k \in bad : \A m \in bad : k <= m :
          bad \in {{k \in 1..Len(pairs) :
                      ~table_populated(pair_cell(bs, pairs[k])[1],
                                       pair_cell(bs, pairs[k])[2])}}})

\* What indexing a cell outside the assigned ones can do: the call of the
\* empty slot throws out of update, or the slot read returns without effect.
slot_outcomes(bad) == IF bad = 0 THEN {"returns"} ELSE {"throws", "returns"}

(***************************************************************************)
(* physics::combine_friction, physics::combine_restitution                 *)
(***************************************************************************)
combine(a, b, mode) ==
    CASE mode = CombineAverage  -> RMul(RAdd(a, b), Rat(1, 2))
      [] mode = CombineMinimum  -> RMin(a, b)
      [] mode = CombineMultiply -> RMul(a, b)
      [] mode = CombineMaximum  -> RMax(a, b)

IMax(a, b) == IF a < b THEN b ELSE a

(***************************************************************************)
(* physics_system::resolve_collisions                                      *)
(***************************************************************************)
friction_clamp_unclamped(friction_impulse_mag, reaction_impulse_mag, static_friction_coef, dynamic_friction_coef) ==
    friction_impulse_mag
\* The Coulomb clamp of the friction impulse magnitude.
friction_clamp(friction_impulse_mag, reaction_impulse_mag, static_friction_coef, dynamic_friction_coef) ==
    IF RGe(RAbs(friction_impulse_mag), RMul(reaction_impulse_mag, static_friction_coef))
    THEN RNeg(RMul(reaction_impulse_mag, dynamic_friction_coef))
    ELSE friction_impulse_mag

separating_never(contact_velocity) == FALSE
\* A contact is skipped when the bodies separate along its normal.
separating(contact_velocity) == RGt(contact_velocity, Zero)

\* sum_inverse_mass + dot(cross(I_a^-1 (r_a x d), r_a) + cross(I_b^-1 (r_b x d), r_b), d):
\* the denominator of an impulse along direction d.
impulse_den(body_a, body_b, radius_a, radius_b, d) ==
    RAdd(RAdd(body_a.inverse_mass, body_b.inverse_mass),
         dot(VAdd(cross(VScale(cross(radius_a, d), body_a.inverse_inertia), radius_a),
                  cross(VScale(cross(radius_b, d), body_b.inverse_inertia), radius_b)),
             d))

restitution_coef(material_a, material_b) ==
    combine(material_a.restitution, material_b.restitution,
            IMax(material_a.restitution_combine_mode, material_b.restitution_combine_mode))

static_friction_coef(material_a, material_b) ==
    combine(material_a.static_friction, material_b.static_friction,
            IMax(material_a.friction_combine_mode, material_b.friction_combine_mode))

dynamic_friction_coef(material_a, material_b) ==
    combine(material_a.dynamic_friction, material_b.dynamic_friction,
            IMax(material_a.friction_combine_mode, material_b.friction_combine_mode))

\* relative_velocity - normal * contact_velocity, normalized unless zero.
tangent_of(unnormalized) ==
    Only({IF RGt(sqr_tangent_length, Zero)
          THEN VDivS(unnormalized, Sqrt(sqr_tangent_length))
          ELSE unnormalized :
          sqr_tangent_length \in {sqr_length(unnormalized)}})

\* The record of a solved contact once both impulse magnitudes are known.
solved_contact(m, contact, radius_a, radius_b, contact_velocity, sf, df, reaction_impulse_mag, contact_tangent, friction_impulse_raw, friction_impulse_mag) ==
    [skipped |-> FALSE, body_a |-> m.body_a, body_b |-> m.body_b,
     contact_velocity |-> contact_velocity,
     radius_a |-> radius_a, radius_b |-> radius_b,
     static_friction_coef |-> sf,
     dynamic_friction_coef |-> df,
     reaction_impulse_mag |-> reaction_impulse_mag,
     reaction_impulse |-> VScale(contact.normal, reaction_impulse_mag),
     contact_tangent |-> contact_tangent,
     friction_impulse_raw |-> friction_impulse_raw,
     friction_impulse_mag |-> friction_impulse_mag,
     friction_impulse |-> VScale(contact_tangent, friction_impulse_mag)]

\* The friction part of a contact whose reaction impulse is known.
solve_friction(m, contact, body_a, body_b, radius_a, radius_b, relative_velocity, contact_velocity, impulse_scale, reaction_impulse_mag, contact_tangent) ==
    Only({solved_contact(m, contact, radius_a, radius_b, contact_velocity, sf, df,
                         reaction_impulse_mag, contact_tangent, friction_impulse_raw,
                         friction_clamp(friction_impulse_raw, reaction_impulse_mag, sf, df)) :
          friction_impulse_raw \in
              {RMul(RDiv(dot(relative_velocity, VNeg(contact_tangent)),
                         impulse_den(body_a, body_b, radius_a, radius_b, contact_tangent)),
                    impulse_scale)},
          sf \in {static_friction_coef(body_a.collider.material, body_b.collider.material)},
          df \in {dynamic_friction_coef(body_a.collider.material, body_b.collider.material)}})

\* One contact, given the lever arms and the relative velocity at the contact.
solve_velocity(m, contact, body_a, body_b, radius_a, radius_b, relative_velocity, contact_velocity) ==
    IF separating(contact_velocity)
    THEN [skipped |-> TRUE, body_a |-> m.body_a, body_b |-> m.body_b,
          contact_velocity |-> contact_velocity]
    ELSE solve_friction(m, contact, body_a, body_b, radius_a, radius_b, relative_velocity,
                        contact_velocity, RDiv(One, Q(m.contact_count)),
                        RMul(RDiv(RMul(RNeg(RAdd(One,
                                       restitution_coef(body_a.collider.material,
                                                        body_b.collider.material))),
                                       contact_velocity),
                                  impulse_den(body_a, body_b, radius_a, radius_b,
                                              contact.normal)),
                             RDiv(One, Q(m.contact_count))),
                        tangent_of(VSub(relative_velocity,
                                        VScale(contact.normal, contact_velocity))))

solve_arms(m, contact, body_a, body_b, radius_a, radius_b) ==
    Only({solve_velocity(m, contact, body_a, body_b, radius_a, radius_b,
                         relative_velocity, dot(relative_velocity, contact.normal)) :
          relative_velocity \in {VSub(get_point_velocity(body_b, radius_b),
                                      get_point_velocity(body_a, radius_a))}})

\* Everything resolve_collisions computes for one contact of manifold m,
\* read from the registry bs as it is when the contact is reached.
solve_contact(bs, m, contact) ==
    solve_arms(m, contact, bs[m.body_a], bs[m.body_b],
               VSub(contact.point, get_position(bs[m.body_a])),
               VSub(contact.point, get_position(bs[m.body_b])))

\* The impulses of one solved contact given to body_b only.
apply_contact_to_b_only(bs, r) ==
    IF r.skipped THEN bs
    ELSE [bs EXCEPT ![r.body_b] = apply_impulse(apply_impulse(@, r.reaction_impulse,
                                                              r.radius_b),
                                                r.friction_impulse, r.radius_b)]

\* The registry after the impulses of one solved contact.
apply_contact(bs, r) ==
    IF r.skipped THEN bs
    ELSE [bs EXCEPT ![r.body_a] = apply_impulse(apply_impulse(@, VNeg(r.reaction_impulse),
                                                              r.radius_a),
                                                VNeg(r.friction_impulse), r.radius_a),
                    ![r.body_b] = apply_impulse(apply_impulse(@, r.reaction_impulse,
                                                              r.radius_b),
                                                r.friction_impulse, r.radius_b)]

\* The log entry of contact i of manifold k, solved as r, from bs to bs1.
contact_entry(bs, bs1, m, k, i, r) ==
    [manifold |-> k, contact |-> i, solved |-> r,
     momentum_a_before |-> bs[m.body_a].linear_momentum,
     momentum_b_before |-> bs[m.body_b].linear_momentum,
     momentum_a_after |-> bs1[m.body_a].linear_momentum,
     momentum_b_after |-> bs1[m.body_b].linear_momentum,
     angular_a_before |-> bs[m.body_a].angular_momentum,
     angular_b_before |-> bs[m.body_b].angular_momentum,
     angular_a_after |-> bs1[m.body_a].angular_momentum,
     angular_b_after |-> bs1[m.body_b].angular_momentum]

\* State <<registry, log>> after contacts i.. of manifold k.. are resolved.
RECURSIVE resolve_loop(_, _, _, _, _)
resolve_loop(bs, ms, k, i, log) ==
    IF k > Len(ms) THEN <<bs, log>>
    ELSE IF i > ms[k].contact_count THEN resolve_loop(bs, ms, k + 1, 1, log)
    ELSE Only({Only({resolve_loop(bs1, ms, k, i + 1,
                                  Append(log, contact_entry(bs, bs1, ms[k], k, i, r))) :
                     bs1 \in {apply_contact(bs, r)}}) :
               r \in {solve_contact(bs, ms[k], ms[k].contacts[i])}})

(***************************************************************************)
(* physics_system::correct_positions                                       *)
(***************************************************************************)
depth_threshold == Rat(1, 100)
correction_factor == Rat(4, 10)

correction_without_threshold(body_a, body_b, contact) ==
    VScale(VScale(contact.normal,
                  RDiv(RMax(Zero, contact.depth),
                       RAdd(body_a.inverse_mass, body_b.inverse_mass))),
           correction_factor)
correction(body_a, body_b, contact) ==
    VScale(VScale(contact.normal,
                  RDiv(RMax(Zero, RSub(contact.depth, depth_threshold)),
                       RAdd(body_a.inverse_mass, body_b.inverse_mass))),
           correction_factor)

\* The registry after one contact's correction c is applied to bodies a, b.
apply_correction(bs, a, b, c) ==
    [bs EXCEPT ![a] = set_position(bs[a], VSub(get_position(bs[a]),
                                               VScale(c, bs[a].inverse_mass))),
               ![b] = set_position(bs[b], VAdd(get_position(bs[b]),
                                               VScale(c, bs[b].inverse_mass)))]

correction_entry(bs, bs1, m, k, i) ==
    [manifold |-> k, contact |-> i, body_a |-> m.body_a, body_b |-> m.body_b,
     depth |-> m.contacts[i].depth,
     normal |-> m.contacts[i].normal,
     inverse_mass_a |-> bs[m.body_a].inverse_mass,
     inverse_mass_b |-> bs[m.body_b].inverse_mass,
     position_a_before |-> get_position(bs[m.body_a]),
     position_b_before |-> get_position(bs[m.body_b]),
     position_a_after |-> get_position(bs1[m.body_a]),
     position_b_after |-> get_position(bs1[m.body_b])]

RECURSIVE correct_loop(_, _, _, _, _)
correct_loop(bs, ms, k, i, log) ==
    IF k > Len(ms) THEN <<bs, log>>
    ELSE IF i > ms[k].contact_count THEN correct_loop(bs, ms, k + 1, 1, log)
    ELSE Only({correct_loop(bs1, ms, k, i + 1,
                            Append(log, correction_entry(bs, bs1, ms[k], k, i))) :
               bs1 \in {apply_correction(bs, ms[k].body_a, ms[k].body_b,
                                         correction(bs[ms[k].body_a], bs[ms[k].body_b],
                                                    ms[k].contacts[i]))}})

(***************************************************************************)
(* physics::spring_constraint                                              *)
(***************************************************************************)
\* body_a / body_b are registry indices, 0 for a detached end.
SpringConstraint(a, b, len, k, d) ==
    [body_a |-> a, body_b |-> b, point_a |-> VZero, point_b |-> VZero,
     resting_length |-> len, stiffness |-> k, damping |-> d, solve_calls |-> 0]

\* spring_constraint::solve: F = -k (|x| - d) x / |x| - b v, applied at the
\* attachment points; nothing is applied unless both ends are attached.
spring_force(c, difference, velocity, distance) ==
    VSub(VScale(VDivS(difference, distance),
                RMul(RNeg(c.stiffness), RSub(distance, c.resting_length))),
         VScale(velocity, c.damping))

spring_apply(bs, c, radius_a, radius_b, difference, distance) ==
    IF distance = Zero THEN bs
    ELSE Only({[bs EXCEPT ![c.body_a] = apply_force(@, VNeg(force), radius_a),
                          ![c.body_b] = apply_force(@, force, radius_b)] :
               force \in {spring_force(c, difference,
                                       VSub(get_point_velocity(bs[c.body_b], radius_b),
                                            get_point_velocity(bs[c.body_a], radius_a)),
                                       distance)}})

spring_arms(bs, c, radius_a, radius_b) ==
    Only({spring_apply(bs, c, radius_a, radius_b, difference, Sqrt(sqr_length(difference))) :
          difference \in {VSub(VAdd(get_position(bs[c.body_b]), radius_b),
                               VAdd(get_position(bs[c.body_a]), radius_a))}})

spring_solve(bs, c) ==
    IF c.body_a = 0 \/ c.body_b = 0 THEN bs
    ELSE spring_arms(bs, c, QRotate(get_orientation(bs[c.body_a]), c.point_a),
                     QRotate(get_orientation(bs[c.body_b]), c.point_b))

\* physics_system::solve_constraints: <<registry, constraints>> after
\* solve(dt) ran on constraints k..
RECURSIVE solve_loop(_, _, _)
solve_loop(bs, cs, k) ==
    IF k > Len(cs) THEN <<bs, cs>>
    ELSE Only({solve_loop(bs1, [cs EXCEPT ![k].solve_calls = @ + 1], k + 1) :
               bs1 \in {spring_solve(bs, cs[k])}})

(***************************************************************************)
(* physics_system::trace                                                   *)
(***************************************************************************)
Ray(origin, direction) == [origin |-> origin, direction |-> direction]

QConj(q) == <<q[1], RNeg(q[2]), RNeg(q[3]), RNeg(q[4])>>
\* vector * quaternion: the vector rotated by the inverse rotation.
VRotateBack(v, q) == QRotate(QConj(q), v)
VDiv(a, b) == <<RDiv(a[1], b[1]), RDiv(a[2], b[2]), RDiv(a[3], b[3])>>
normalize(v) == VScale(v, RDiv(One, Sqrt(sqr_length(v))))
sqr_distance(p0, p1) == sqr_length(VSub(p0, p1))
extrapolate(ray, distance) == VAdd(ray.origin, VScale(ray.direction, distance))

\* std::numeric_limits<float>::infinity(): greater than every finite value.
Infinity == <<1, 0>>

\* The ray in the space of a body with the given transform.
body_space_ray(ray, transform) ==
    Ray(VDiv(VRotateBack(VSub(ray.origin, transform.translation), transform.rotation),
             transform.scale),
        normalize(VDiv(VRotateBack(ray.direction, transform.rotation), transform.scale)))

\* Distance along the ray to face f, or Infinity if the ray misses it.
face_hit(ray, f) ==
    IF ray.direction[2] = Zero THEN Infinity
    ELSE Only({IF RLt(distance, Zero) THEN Infinity
               ELSE IF RLt(extrapolate(ray, distance)[1], f.x_min) THEN Infinity
               ELSE IF RGt(extrapolate(ray, distance)[1], f.x_max) THEN Infinity
               ELSE distance :
               distance \in {RDiv(RSub(f.height, ray.origin[2]), ray.direction[2])}})

\* mesh_collider::intersection: <<distance, face index, normal>> of the
\* nearest face hit among faces k.., or best if none is nearer.
RECURSIVE mesh_nearest(_, _, _, _)
mesh_nearest(faces, ray, k, best) ==
    IF k > Len(faces) THEN best
    ELSE Only({IF RLt(distance, Infinity) /\ (best = <<>> \/ RLt(distance, best[1]))
               THEN mesh_nearest(faces, ray, k + 1, <<distance, k, V(0, 1, 0)>>)
               ELSE mesh_nearest(faces, ray, k + 1, best) :
               distance \in {face_hit(ray, faces[k])}})

mesh_intersection(collider, ray) == mesh_nearest(collider.faces, ray, 1, <<>>)

\* The nearest hit before any body was looked at; entity 0 is entt::null.
NoHit == [entity |-> 0, sqr_distance |-> Infinity, face_index |-> 0, normal |-> VZero]

\* The candidate test of the loop with the layer test left out.
trace_candidate_any_layer(bs, i, ignore_eid, layer_mask) ==
    /\ i # ignore_eid
    /\ has_collider(bs[i])
    /\ bs[i].collider.type = "mesh"

\* The body passes the three "continue" tests and the mesh test of the loop.
trace_candidate(bs, i, ignore_eid, layer_mask) ==
    /\ i # ignore_eid
    /\ has_collider(bs[i])
    /\ BitAnd(bs[i].collider.layer_mask, layer_mask) # 0
    /\ bs[i].collider.type = "mesh"

\* The nearest hit with the comparison "sqr_distance <= nearest_hit_sqr_distance".
trace_hit_or_equal(body, i, ray, bs_ray, intersection, nearest) ==
    IF intersection = <<>> THEN nearest
    ELSE Only({IF RLe(sqr, nearest.sqr_distance)
               THEN [entity |-> i, sqr_distance |-> sqr, face_index |-> intersection[2],
                     normal |-> normalize(QRotate(get_transform(body).rotation,
                                                  VDiv(intersection[3],
                                                       get_transform(body).scale)))]
               ELSE nearest :
               sqr \in {sqr_distance(TApply(get_transform(body),
                                            extrapolate(bs_ray, intersection[1])),
                                     ray.origin)}})

\* The nearest hit after the mesh of body i was intersected with bs_ray.
trace_hit(body, i, ray, bs_ray, intersection, nearest) ==
    IF intersection = <<>> THEN nearest
    ELSE Only({IF RLt(sqr, nearest.sqr_distance)
               THEN [entity |-> i, sqr_distance |-> sqr, face_index |-> intersection[2],
                     normal |-> normalize(QRotate(get_transform(body).rotation,
                                                  VDiv(intersection[3],
                                                       get_transform(body).scale)))]
               ELSE nearest :
               sqr \in {sqr_distance(TApply(get_transform(body),
                                            extrapolate(bs_ray, intersection[1])),
                                     ray.origin)}})

RECURSIVE trace_loop(_, _, _, _, _, _)
trace_loop(bs, ray, ignore_eid, layer_mask, i, nearest) ==
    IF i > Len(bs) THEN nearest
    ELSE IF ~trace_candidate(bs, i, ignore_eid, layer_mask)
         THEN trace_loop(bs, ray, ignore_eid, layer_mask, i + 1, nearest)
         ELSE Only({trace_loop(bs, ray, ignore_eid, layer_mask, i + 1,
                               trace_hit(bs[i], i, ray, bs_ray,
                                         mesh_intersection(bs[i].collider, bs_ray), nearest)) :
                    bs_ray \in {body_space_ray(ray, get_transform(bs[i]))}})

\* The value trace returns: <<>> for std::nullopt, or the one tuple.
trace_result(bs, ray, ignore_eid, layer_mask) ==
    Only({IF nearest.entity = 0 THEN <<>>
          ELSE <<[entity |-> nearest.entity, distance |-> Sqrt(nearest.sqr_distance),
                  face_index |-> nearest.face_index, normal |-> nearest.normal]>> :
          nearest \in {trace_loop(bs, ray, ignore_eid, layer_mask, 1, NoHit)}})

(***************************************************************************)
(* physics_system::update, one action per phase.                           *)
(***************************************************************************)
\* The statements of update, in program order.
update_sequence ==
    <<"detect_collisions_broad", "detect_collisions_narrow", "solve_constraints",
      "resolve_collisions", "integrate", "correct_positions", "write_transforms">>

next_phase(p) ==
    Only({IF k = Len(update_sequence) THEN "idle" ELSE update_sequence[k + 1] :
          k \in {i \in 1..Len(update_sequence) : update_sequence[i] = p}})

Dts == {Rat(1, 2), One}
Alphas == {Zero, Rat(1, 2), One}

\* registry.emplace of the components of a new entity; the scene is built
\* before its constraints, before the first step and before the first trace.
emplace_entity(templates, limit) ==
    /\ pc = "idle"
    /\ steps = 0
    /\ trace_log = <<>>
    /\ constraints = <<>>
    /\ Len(bodies) < limit
    /\ \E e \in templates :
        /\ bodies' = Append(bodies, e.body)
        /\ transforms' = Append(transforms,
                                [present |-> e.has_transform, local |-> TIdentity])
        /\ scene_objects' = Append(scene_objects, e.body.current_transform)
    /\ UNCHANGED <<constraints, m_broad_phase_pairs, m_narrow_phase_manifolds, pc, dt,
                   steps, phase_log, dispatch_log, contact_log, correction_log,
                   interpolate_log,
                   manifold_history, trace_vars, queue_vars, worker_vars>>

\* registry.emplace<rigid_body_constraint_component> of a spring between two
\* bodies at different positions, or with one end detached.
emplace_constraint ==
    /\ pc = "idle"
    /\ steps = 0
    /\ Len(constraints) < MaxConstraints
    /\ \E a \in 1..Len(bodies) : \E b \in {0} \cup ({a + 1} \cap 1..Len(bodies)) :
        /\ b # 0 => get_position(bodies[a]) # get_position(bodies[b])
        /\ constraints' = Append(constraints, SpringConstraint(a, b, One, One, Zero))
    /\ UNCHANGED <<bodies, m_broad_phase_pairs, m_narrow_phase_manifolds, pc, dt, steps,
                   phase_log, dispatch_log, contact_log, correction_log, transforms,
                   scene_objects, interpolate_log,
                   manifold_history, trace_vars, queue_vars, worker_vars>>

\* Entry of update(t, dt), for at most limit calls.
update_within(limit) ==
    /\ pc = "idle"
    /\ steps < limit
    /\ \E d \in Dts : dt' = d
    /\ pc' = update_sequence[1]
    /\ phase_log' = <<>>
    /\ dispatch_log' = <<>>
    /\ contact_log' = <<>>
    /\ correction_log' = <<>>
    /\ constraints' = [k \in 1..Len(constraints) |-> [constraints[k] EXCEPT !.solve_calls = 0]]
    /\ UNCHANGED <<bodies, m_broad_phase_pairs, m_narrow_phase_manifolds, steps,
                   transforms, scene_objects, interpolate_log,
                   manifold_history, trace_vars, queue_vars, worker_vars>>

update == update_within(MaxSteps)

\* A phase returns: the next statement of update is reached.
finish(p) ==
    /\ pc' = next_phase(p)
    /\ phase_log' = Append(phase_log, p)
    /\ steps' = IF next_phase(p) = "idle" THEN steps + 1 ELSE steps

detect_collisions_broad ==
    /\ pc = "detect_collisions_broad"
    /\ m_broad_phase_pairs' =
           broad_loop(bodies, 1, inner_begin(1), cleared(m_broad_phase_pairs))
    /\ finish("detect_collisions_broad")
    /\ UNCHANGED <<bodies, constraints, m_narrow_phase_manifolds, dt, dispatch_log,
                   contact_log, correction_log, transforms, scene_objects,
                   interpolate_log,
                   manifold_history, trace_vars, queue_vars, worker_vars>>

\* The loop indexes m_narrow_phase_table with the two collider types of every
\* pair.  At the first cell outside the assigned ones the call either leaves
\* update by an exception, or goes on as if the slot did nothing.
detect_collisions_narrow ==
    /\ pc = "detect_collisions_narrow"
    /\ \E bad \in {first_bad_cell(bodies, m_broad_phase_pairs)} :
       \E outcome \in slot_outcomes(bad) :
       \E last \in {IF outcome = "throws" THEN bad ELSE Len(m_broad_phase_pairs)} :
        /\ m_narrow_phase_manifolds' =
               narrow_loop(bodies, m_broad_phase_pairs, 1, last,
                           cleared(m_narrow_phase_manifolds))
        /\ manifold_history' =
               IF outcome = "throws" THEN manifold_history
               ELSE Append(manifold_history, Len(m_narrow_phase_manifolds'))
        /\ dispatch_log' = [k \in 1..last |-> pair_cell(bodies, m_broad_phase_pairs[k])]
        /\ pc' = IF outcome = "throws" THEN "aborted"
                 ELSE next_phase("detect_collisions_narrow")
        /\ phase_log' = IF outcome = "throws" THEN phase_log
                        ELSE Append(phase_log, "detect_collisions_narrow")
    /\ UNCHANGED <<bodies, constraints, m_broad_phase_pairs, dt, steps, contact_log,
                   correction_log, transforms, scene_objects, interpolate_log,
                   trace_vars, queue_vars, worker_vars>>

solve_constraints ==
    /\ pc = "solve_constraints"
    /\ \E r \in {solve_loop(bodies, constraints, 1)} :
        /\ bodies' = r[1]
        /\ constraints' = r[2]
    /\ finish("solve_constraints")
    /\ UNCHANGED <<m_broad_phase_pairs, m_narrow_phase_manifolds, dt, dispatch_log,
                   contact_log, correction_log, transforms, scene_objects,
                   interpolate_log,
                   manifold_history, trace_vars, queue_vars, worker_vars>>

resolve_collisions ==
    /\ pc = "resolve_collisions"
    /\ \E r \in {resolve_loop(bodies, m_narrow_phase_manifolds, 1, 1, <<>>)} :
        /\ bodies' = r[1]
        /\ contact_log' = r[2]
    /\ finish("resolve_collisions")
    /\ UNCHANGED <<constraints, m_broad_phase_pairs, m_narrow_phase_manifolds, dt,
                   dispatch_log, correction_log, transforms, scene_objects,
                   interpolate_log,
                   manifold_history, trace_vars, queue_vars, worker_vars>>

integrate ==
    /\ pc = "integrate"
    /\ bodies' = [i \in 1..Len(bodies) |-> integrate_body(bodies[i], dt)]
    /\ finish("integrate")
    /\ UNCHANGED <<constraints, m_broad_phase_pairs, m_narrow_phase_manifolds, dt,
                   dispatch_log, contact_log, correction_log, transforms, scene_objects,
                   interpolate_log,
                   manifold_history, trace_vars, queue_vars, worker_vars>>

correct_positions ==
    /\ pc = "correct_positions"
    /\ \E r \in {correct_loop(bodies, m_narrow_phase_manifolds, 1, 1, <<>>)} :
        /\ bodies' = r[1]
        /\ correction_log' = r[2]
    /\ finish("correct_positions")
    /\ UNCHANGED <<constraints, m_broad_phase_pairs, m_narrow_phase_manifolds, dt,
                   dispatch_log, contact_log, transforms, scene_objects, interpolate_log,
                   manifold_history, trace_vars, queue_vars, worker_vars>>

\* The patch with the transform the body had before this step's integration.
patch_transform_previous(transform, body) ==
    [transform EXCEPT !.local = body.previous_transform]

\* registry.patch<transform_component>: transform.local = body.get_transform()
patch_transform(transform, body) == [transform EXCEPT !.local = get_transform(body)]

\* The loop over view<rigid_body_component, transform_component> that ends update.
write_transforms ==
    /\ pc = "write_transforms"
    /\ transforms' = [i \in 1..Len(transforms) |->
                         IF transforms[i].present
                         THEN patch_transform(transforms[i], bodies[i])
                         ELSE transforms[i]]
    /\ finish("write_transforms")
    /\ UNCHANGED <<bodies, constraints, m_broad_phase_pairs, m_narrow_phase_manifolds, dt,
                   dispatch_log, contact_log, correction_log, scene_objects,
                   interpolate_log,
                   manifold_history, trace_vars, queue_vars, worker_vars>>

\* physics_system::interpolate(alpha)
interpolate ==
    /\ pc = "idle"
    /\ Len(bodies) > 0
    /\ \E alpha \in Alphas :
        /\ scene_objects' = [i \in 1..Len(bodies) |-> interpolate_body(bodies[i], alpha)]
        /\ interpolate_log' = <<alpha>>
    /\ UNCHANGED <<bodies, constraints, m_broad_phase_pairs, m_narrow_phase_manifolds, pc,
                   dt, steps, phase_log, dispatch_log, contact_log, correction_log,
                   transforms,
                   manifold_history, trace_vars, queue_vars, worker_vars>>

(***************************************************************************)
(* physics_system::integrate as std::for_each(par_unseq) runs it: one       *)
(* worker per entity of the view, each calling body.integrate(dt), which   *)
(* is integrate_forces followed by integrate_velocities.  The workers run  *)
(* in any order and interleave between the two calls.                      *)
(***************************************************************************)
\* No for_each is running.
NoWorkers == [forked |-> FALSE, start |-> <<>>, at |-> <<>>]

\* The registry after the worker of entity i has run integrate_velocities,
\* with the previous transform taken from the first entity of the view.
worker_integrate_velocities_shared(bs, i, h) ==
    [bs EXCEPT ![i] = [integrate_velocities(bs[i], h) EXCEPT
                           !.previous_transform = bs[1].current_transform]]

\* The registry after the worker of entity i has run integrate_forces /
\* integrate_velocities on its body.
worker_integrate_forces(bs, i, h) == [bs EXCEPT ![i] = integrate_forces(bs[i], h)]
worker_integrate_velocities(bs, i, h) == [bs EXCEPT ![i] = integrate_velocities(bs[i], h)]

\* std::for_each starts: one worker per entity of the view.
integrate_fork ==
    /\ pc = "integrate"
    /\ ~integrate_workers.forked
    /\ integrate_workers' = [forked |-> TRUE, start |-> bodies,
                             at |-> [i \in 1..Len(bodies) |-> "integrate_forces"]]
    /\ UNCHANGED <<physics_vars, trace_vars, queue_vars>>

\* The worker of entity i runs body.integrate_forces(dt).
integrate_worker_forces(i) ==
    /\ pc = "integrate"
    /\ integrate_workers.forked
    /\ integrate_workers.at[i] = "integrate_forces"
    /\ bodies' = worker_integrate_forces(bodies, i, dt)
    /\ integrate_workers' = [integrate_workers EXCEPT !.at[i] = "integrate_velocities"]
    /\ UNCHANGED <<constraints, m_broad_phase_pairs, m_narrow_phase_manifolds, pc, dt, steps,
                   phase_log, dispatch_log, contact_log, correction_log, transforms,
                   scene_objects, interpolate_log, manifold_history, trace_vars, queue_vars>>

\* The worker of entity i runs body.integrate_velocities(dt) and ends.
integrate_worker_velocities(i) ==
    /\ pc = "integrate"
    /\ integrate_workers.forked
    /\ integrate_workers.at[i] = "integrate_velocities"
    /\ bodies' = worker_integrate_velocities(bodies, i, dt)
    /\ integrate_workers' = [integrate_workers EXCEPT !.at[i] = "done"]
    /\ UNCHANGED <<constraints, m_broad_phase_pairs, m_narrow_phase_manifolds, pc, dt, steps,
                   phase_log, dispatch_log, contact_log, correction_log, transforms,
                   scene_objects, interpolate_log, manifold_history, trace_vars, queue_vars>>

\* std::for_each returns once every worker has ended.
integrate_join ==
    /\ pc = "integrate"
    /\ integrate_workers.forked
    /\ \A i \in 1..Len(bodies) : integrate_workers.at[i] = "done"
    /\ integrate_workers' = [integrate_workers EXCEPT !.forked = FALSE]
    /\ finish("integrate")
    /\ UNCHANGED <<bodies, constraints, m_broad_phase_pairs, m_narrow_phase_manifolds, dt,
                   dispatch_log, contact_log, correction_log, transforms, scene_objects,
                   interpolate_log, manifold_history, trace_vars, queue_vars>>

\* integrate with its workers interleaved.
integrate_parallel ==
    \/ integrate_fork
    \/ \E i \in 1..Len(bodies) : integrate_worker_forces(i)
    \/ \E i \in 1..Len(bodies) : integrate_worker_velocities(i)
    \/ integrate_join

\* The statements of update that run on the calling thread alone.
SerialPhases ==
    \/ detect_collisions_broad
    \/ detect_collisions_narrow
    \/ solve_constraints
    \/ resolve_collisions
    \/ correct_positions
    \/ write_transforms

\* The statements of update after its entry.
Phases ==
    \/ detect_collisions_broad
    \/ detect_collisions_narrow
    \/ solve_constraints
    \/ resolve_collisions
    \/ integrate
    \/ correct_positions
    \/ write_transforms

Step ==
    \/ update
    \/ Phases

Init ==
    /\ bodies = <<>>
    /\ constraints = <<>>
    /\ m_broad_phase_pairs = <<>>
    /\ m_narrow_phase_manifolds = <<>>
    /\ pc = "idle"
    /\ dt = Zero
    /\ steps = 0
    /\ phase_log = <<>>
    /\ dispatch_log = <<>>
    /\ contact_log = <<>>
    /\ correction_log = <<>>
    /\ transforms = <<>>
    /\ scene_objects = <<>>
    /\ interpolate_log = <<>>
    /\ manifold_history = <<>>
    /\ trace_log = <<>>
    /\ m_messages = <<>>
    /\ published = 0
    /\ delivered = <<>>
    /\ flush_log = <<>>
    /\ flushing = FALSE
    /\ integrate_workers = NoWorkers

(***************************************************************************)
(* Scenes of the whole step: bodies of every collider kind, static and     *)
(* dynamic, on layers 1 and 2.                                             *)
(***************************************************************************)
Entity(body, has_transform) == [body |-> body, has_transform |-> has_transform]

Ground == RigidBody(Zero, Zero, VZero, QIdentity,
                    PlaneCollider(V(0, 1, 0), Zero, 3, DefaultMaterial), VZero, VZero)
Ball == RigidBody(One, One, <<Zero, Rat(1, 2), Zero>>, QIdentity,
                  SphereCollider(VZero, One, 1, DefaultMaterial), V(1, -1, 0), VZero)
Crate == RigidBody(One, One, V(0, 1, 0), QIdentity,
                   BoxCollider(V(-1, -1, -1), V(1, 1, 1), 2, DefaultMaterial),
                   V(0, -1, 0), VZero)
Terrain == RigidBody(Zero, Zero, VZero, QIdentity, MeshCollider(1, DefaultMaterial),
                     VZero, VZero)
Ghost == RigidBody(One, One, V(0, 5, 0), QIdentity, NoCollider, V(1, 0, 0), VZero)

StepEntities ==
    {Entity(Ground, FALSE), Entity(Ball, TRUE), Entity(Crate, TRUE),
     Entity(Terrain, TRUE), Entity(Ghost, FALSE)}

Next ==
    \/ emplace_entity(StepEntities, MaxBodies)
    \/ emplace_constraint
    \/ Step

Spec == Init /\ [][Next]_vars

(***************************************************************************)
(* Scenes of two bodies for the narrow phase, the impulses and the         *)
(* position correction: radius-1 spheres along the x axis at the distances *)
(* 3/2, 39/20, 199/100, 2 and 201/100 from the first one, and boxes with   *)
(* corners (-1,-1,-1)..(1,1,1) on, above, below and turned over the plane  *)
(* y = 0.                                                                  *)
(***************************************************************************)
Sphere(mass, x, p) ==
    RigidBody(mass, One, <<x, Rat(1, 2), Zero>>, QIdentity,
              SphereCollider(VZero, One, 1, DefaultMaterial), p, VZero)

Box(y, rot, p) ==
    RigidBody(One, One, <<Zero, y, Zero>>, rot,
              BoxCollider(V(-1, -1, -1), V(1, 1, 1), 2, DefaultMaterial), p, VZero)

\* The half turn about the x axis.
QTurnX == <<Zero, One, Zero, Zero>>

PairEntities ==
    {Entity(Ground, FALSE),
     Entity(Sphere(One, Zero, V(1, -1, 0)), TRUE),
     Entity(Sphere(One, Rat(3, 2), V(3, -1, 0)), TRUE),
     Entity(Sphere(One, Rat(39, 20), V(-1, 0, 0)), TRUE),
     Entity(Sphere(Q(2), Rat(199, 100), V(0, 1, 0)), TRUE),
     Entity(Sphere(Q(2), Q(2), V(0, -1, 0)), TRUE),
     Entity(Sphere(One, Rat(201, 100), VZero), TRUE),
     Entity(Box(One, QIdentity, V(0, -1, 0)), TRUE),
     Entity(Box(Rat(1, 2), QTurnX, V(1, -1, 0)), TRUE),
     Entity(Box(Q(-2), QIdentity, VZero), TRUE),
     Entity(Box(Q(3), QIdentity, VZero), TRUE)}

NextPair ==
    \/ emplace_entity(PairEntities, MaxPairBodies)
    \/ Step

SpecPair == Init /\ [][NextPair]_vars

(***************************************************************************)
(* Bodies for rigid_body::interpolate: previous and current transforms     *)
(* with binary32 translations, among them 0.1f = 13421773 / 2^27 and       *)
(* 0.3f = 10066330 / 2^25.                                                 *)
(***************************************************************************)
FloatInputs ==
    {Zero, Rat(1, 2), One, Q(3), Reduce(13421773, Pow2(27)), Reduce(10066330, Pow2(25))}

\* Unit rotations with rational components.
RotationInputs == {QIdentity, QTurnX}

\* A body that integrate_velocities moved from previous to current.
MovedBody(previous, current) ==
    [RigidBody(One, One, current.translation, current.rotation, NoCollider, VZero, VZero)
        EXCEPT !.previous_transform = previous]

InterpolateEntities ==
    {Entity(MovedBody(Transform(<<x0, Zero, Zero>>, QIdentity, V(1, 1, 1)),
                      Transform(<<x1, Zero, Zero>>, r1, V(1, 1, 1))), FALSE) :
        x0 \in FloatInputs, x1 \in FloatInputs, r1 \in RotationInputs}

NextInterpolate ==
    \/ emplace_entity(InterpolateEntities, MaxInterpolateBodies)
    \/ interpolate

SpecInterpolate == Init /\ [][NextInterpolate]_vars

(***************************************************************************)
(* Scenes for physics_system::trace: two meshes on different layers, an     *)
(* empty mesh, and bodies with the other collider kinds, under rays that   *)
(* go down, up and aslant.                                                 *)
(***************************************************************************)
Meadow == RigidBody(Zero, Zero, VZero, QIdentity,
                    MeshOf(<<Face(Zero, Q(-2), Q(2))>>, 1, DefaultMaterial), VZero, VZero)
Ledge == RigidBody(Zero, Zero, V(0, 1, 0), QIdentity,
                   MeshOf(<<Face(Zero, Zero, Q(2)), Face(Rat(1, 2), One, Q(2))>>, 2,
                          DefaultMaterial),
                   VZero, VZero)
Pill == RigidBody(One, One, V(0, 2, 0), QIdentity,
                  CapsuleCollider(V(-1, 0, 0), V(1, 0, 0), One, 1, DefaultMaterial),
                  VZero, VZero)

TraceEntities ==
    {Entity(Meadow, FALSE), Entity(Ledge, FALSE), Entity(Terrain, FALSE),
     Entity(Ground, FALSE), Entity(Ball, TRUE), Entity(Crate, TRUE), Entity(Pill, TRUE),
     Entity(Ghost, FALSE)}

Rays ==
    {Ray(V(0, 3, 0), V(0, -1, 0)), Ray(V(1, 3, 0), V(0, -1, 0)),
     Ray(V(5, 3, 0), V(0, -1, 0)), Ray(V(0, 3, 0), V(0, 1, 0)),
     Ray(V(-3, 4, 0), <<Rat(3, 5), Rat(-4, 5), Zero>>)}

LayerMasks == {1, 2, 3}

\* physics_system::trace(ray, ignore_eid, layer_mask); ignore_eid 0 is entt::null.
\* trace is const: the call of a scene that is recorded is its first one.
trace ==
    /\ pc = "idle"
    /\ trace_log = <<>>
    /\ \E ray \in Rays : \E ignore_eid \in 0..Len(bodies) : \E layer_mask \in LayerMasks :
        trace_log' = <<[ray |-> ray, ignore_eid |-> ignore_eid, layer_mask |-> layer_mask,
                        result |-> trace_result(bodies, ray, ignore_eid, layer_mask)]>>
    /\ UNCHANGED <<physics_vars, queue_vars, worker_vars>>

NextTrace ==
    \/ emplace_entity(TraceEntities, MaxTraceBodies)
    \/ trace

SpecTrace == Init /\ [][NextTrace]_vars

(***************************************************************************)
(* Scenes of two bodies on one layer with every collider kind of the       *)
(* table: a static and a dynamic plane, spheres, boxes, and capsules that  *)
(* lie along x or z through (0, 1/2, 0) or along x through (0, 3/2, 0).    *)
(* The boxes are centred at heights 1, 2 and -2.                           *)
(***************************************************************************)
Slab == RigidBody(One, One, V(0, 1, 0), QIdentity,
                  PlaneCollider(V(0, 1, 0), Zero, 1, DefaultMaterial), V(0, -1, 0), VZero)

Block(y, p) == [Box(y, QIdentity, p) EXCEPT !.collider.layer_mask = 1]

Capsule(y, axis, p) ==
    RigidBody(One, One, <<Zero, y, Zero>>, QIdentity,
              CapsuleCollider(VNeg(axis), axis, One, 1, DefaultMaterial), p, VZero)

ShapeEntities ==
    {Entity(Ground, FALSE),
     Entity(Slab, TRUE),
     Entity(Sphere(One, Zero, V(1, -1, 0)), TRUE),
     Entity(Sphere(One, Rat(3, 2), V(-1, 0, 0)), TRUE),
     Entity(Block(One, V(0, 1, 0)), TRUE),
     Entity(Block(Q(2), V(0, -1, 0)), TRUE),
     Entity(Block(Q(-2), VZero), TRUE),
     Entity(Capsule(Rat(1, 2), V(1, 0, 0), V(0, 1, 0)), TRUE),
     Entity(Capsule(Rat(1, 2), V(0, 0, 1), V(0, -1, 0)), TRUE),
     Entity(Capsule(Rat(3, 2), V(1, 0, 0), V(0, -1, 0)), TRUE)}

NextShapes ==
    \/ emplace_entity(ShapeEntities, MaxShapeBodies)
    \/ Step

SpecShapes == Init /\ [][NextShapes]_vars

(***************************************************************************)
(* Scenes of two bodies with contacts that separate: boxes that rest on    *)
(* the plane y = 0 and spin about z, so that the corners of one side rise  *)
(* and those of the other side fall, and spheres that rise from the plane  *)
(* or fall onto it.                                                        *)
(***************************************************************************)
Spinner(l) ==
    [Block(One, VZero) EXCEPT !.angular_momentum = l,
                              !.angular_velocity = VScale(l, Block(One, VZero).inverse_inertia)]

\* A box on the plane that falls, slides along x and spins about z: all its
\* lower corners approach the plane, those of one side three times as fast
\* as those of the other, and all slide along x.
Tumbler ==
    [Block(One, V(1, -2, 0)) EXCEPT !.angular_momentum = V(0, 0, 1),
                                    !.angular_velocity =
                                        VScale(V(0, 0, 1), Block(One, VZero).inverse_inertia)]

SpinEntities ==
    {Entity(Ground, FALSE),
     Entity(Tumbler, TRUE),
     Entity(Spinner(V(0, 0, 1)), TRUE),
     Entity(Spinner(V(0, 0, -1)), TRUE),
     Entity(Spinner(V(1, 0, 0)), TRUE),
     Entity(Sphere(One, Zero, V(0, 1, 0)), TRUE),
     Entity(Sphere(One, Zero, V(1, -1, 0)), TRUE),
     Entity(Sphere(Q(2), One, V(-2, 0, 0)), TRUE)}

NextSpin ==
    \/ emplace_entity(SpinEntities, MaxSpinBodies)
    \/ Step

SpecSpin == Init /\ [][NextSpin]_vars

(***************************************************************************)
(* The whole step with the workers of integrate interleaved, on bodies     *)
(* that move, spin, collide and are tied by a spring.                      *)
(***************************************************************************)
ParallelEntities ==
    {Entity(Ground, FALSE),
     Entity(Tumbler, TRUE),
     Entity(Spinner(V(1, 0, 0)), TRUE),
     Entity(Sphere(One, Zero, V(1, -1, 0)), TRUE)}

NextParallel ==
    \/ emplace_entity(ParallelEntities, MaxParallelBodies)
    \/ emplace_constraint
    \/ update_within(MaxParallelSteps)
    \/ SerialPhases
    \/ integrate_parallel

SpecParallel == Init /\ [][NextParallel]_vars

(***************************************************************************)
(* Scenes with static bodies (mass 0, inertia 0): the plane y = 0, a plane *)
(* turned about x by the unit quaternion (3/5, 4/5, 0, 0), and a sphere    *)
(* that has momentum; with them dynamic spheres that fall onto them, and a *)
(* spring from a body to the next one.                                     *)
(***************************************************************************)
QTilt == <<Rat(3, 5), Rat(4, 5), Zero, Zero>>

Ramp == RigidBody(Zero, Zero, V(0, -1, 0), QTilt,
                  PlaneCollider(V(0, 1, 0), Zero, 1, DefaultMaterial), VZero, VZero)

Anchor == RigidBody(Zero, Zero, <<One, Rat(1, 2), Zero>>, QTilt,
                    SphereCollider(VZero, One, 1, DefaultMaterial), V(1, 0, 0), V(0, 0, 1))

StaticEntities ==
    {Entity(Ground, FALSE),
     Entity(Ramp, TRUE),
     Entity(Anchor, TRUE),
     Entity(Sphere(One, Zero, V(1, -1, 0)), TRUE),
     Entity(Sphere(Q(2), Rat(5, 2), V(-2, -1, 0)), TRUE)}

NextStatic ==
    \/ emplace_entity(StaticEntities, MaxStaticBodies)
    \/ emplace_constraint
    \/ update_within(MaxStaticSteps)
    \/ Phases

SpecStatic == Init /\ [][NextStatic]_vars

(***************************************************************************)
(* event::queue.  A message is the closure enqueue stores: it carries the   *)
(* number of the enqueue call that made it and its message type.  A        *)
(* subscriber that receives a message may enqueue further messages.        *)
(***************************************************************************)
MessageTypes == {"ping", "pong"}

\* What the subscribers of a message enqueue while it is dispatched.
Reactions == {<<>>, <<"pong">>, <<"pong", "ping">>}

Message(id, type) == [id |-> id, type |-> type]

emplace_front(messages, message) == <<message>> \o messages
\* m_messages.emplace_back(closure)
emplace_back(messages, message) == Append(messages, message)
\* m_messages.front()
front(messages) == Head(messages)
\* m_messages.pop_front()
pop_front(messages) == Tail(messages)

\* The queue after the enqueue calls of a subscriber, numbered from next on.
RECURSIVE enqueue_all(_, _, _, _)
enqueue_all(messages, types, k, next) ==
    IF k > Len(types) THEN messages
    ELSE enqueue_all(emplace_back(messages, Message(next, types[k])), types, k + 1, next + 1)

\* event::queue::enqueue called by a publisher between two flushes.
enqueue ==
    /\ ~flushing
    /\ published < MaxMessages
    /\ \E type \in MessageTypes :
        m_messages' = emplace_back(m_messages, Message(published + 1, type))
    /\ published' = published + 1
    /\ UNCHANGED <<physics_vars, trace_vars, worker_vars, delivered, flush_log, flushing>>

\* event::queue::clear
clear_queue ==
    /\ ~flushing
    /\ m_messages # <<>>
    /\ m_messages' = <<>>
    /\ UNCHANGED <<physics_vars, trace_vars, worker_vars, published, delivered, flush_log, flushing>>

\* Entry of event::queue::flush.
flush ==
    /\ ~flushing
    /\ flushing' = TRUE
    /\ flush_log' = <<>>
    /\ UNCHANGED <<physics_vars, trace_vars, worker_vars, m_messages, published, delivered>>

\* One iteration of the loop of flush: the front closure is called, its
\* subscribers run (and may enqueue), then the front is popped.
flush_dispatch ==
    /\ flushing
    /\ m_messages # <<>>
    /\ \E reaction \in Reactions :
        /\ published + Len(reaction) <= MaxMessages
        /\ delivered' = Append(delivered, front(m_messages))
        /\ flush_log' = Append(flush_log, front(m_messages))
        /\ m_messages' = pop_front(enqueue_all(m_messages, reaction, 1, published + 1))
        /\ published' = published + Len(reaction)
    /\ UNCHANGED <<physics_vars, trace_vars, worker_vars, flushing>>

\* The loop of flush ends on the empty queue and flush returns.
flush_return ==
    /\ flushing
    /\ m_messages = <<>>
    /\ flushing' = FALSE
    /\ UNCHANGED <<physics_vars, trace_vars, worker_vars, m_messages, published, delivered, flush_log>>

NextQueue ==
    \/ enqueue
    \/ clear_queue
    \/ flush
    \/ flush_dispatch
    \/ flush_return

SpecQueue == Init /\ [][NextQueue]_vars

(***************************************************************************)
(* Scenes for consecutive steps: a sphere that rests on the static plane   *)
(* step after step, and two overlapping spheres that fly apart, so that    *)
(* the first step has a manifold and the second has none.                  *)
(***************************************************************************)
RepeatEntities ==
    {Entity(Ground, FALSE),
     Entity(Sphere(One, Zero, V(0, -1, 0)), TRUE),
     Entity(Sphere(One, Zero, V(-2, 0, 0)), TRUE),
     Entity(Sphere(One, Rat(3, 2), V(2, 0, 0)), TRUE)}

NextRepeat ==
    \/ emplace_entity(RepeatEntities, MaxRepeatBodies)
    \/ update_within(MaxRepeatSteps)
    \/ Phases

SpecRepeat == Init /\ [][NextRepeat]_vars

(***************************************************************************)
(* Properties.                                                             *)
(***************************************************************************)
Range(seq) == {seq[k] : k \in 1..Len(seq)}

\* The registry is as the narrow phase of the running call has just seen it.
narrow_returned == pc = "solve_constraints"

\* The manifolds appended for the bodies of broad-phase pair k.
manifolds_of(k) ==
    {m \in Range(m_narrow_phase_manifolds) :
        {m.body_a, m.body_b} = {m_broad_phase_pairs[k][1], m_broad_phase_pairs[k][2]}}

\* C1: every call of update runs broad phase, narrow phase, constraint
\* solving, collision resolution, integration, position correction and the
\* transform write-back, each exactly once and in this order, and solve is
\* called exactly once on every constraint: the phases finished so far are
\* always a prefix of that order, a call that has ended has finished all of
\* them, and every constraint has been solved once when constraint solving
\* has finished and not before.
C1_update_runs_every_phase_once_in_order ==
    /\ \E n \in 0..7 :
          phase_log = SubSeq(<<"detect_collisions_broad", "detect_collisions_narrow",
                               "solve_constraints", "resolve_collisions", "integrate",
                               "correct_positions", "write_transforms">>, 1, n)
    /\ (pc = "aborted" \/ (pc = "idle" /\ steps > 0)) => Len(phase_log) = 7
    /\ \A k \in 1..Len(constraints) :
          constraints[k].solve_calls =
              (IF "solve_constraints" \in Range(phase_log) THEN 1 ELSE 0)

\* C2: the broad-phase pair list never holds a pair of two static bodies,
\* a pair whose layer masks have no common bit, or a body without collider.
C2_broad_phase_excludes ==
    \A k \in 1..Len(m_broad_phase_pairs) :
        /\ ~(is_static(bodies[m_broad_phase_pairs[k][1]])
             /\ is_static(bodies[m_broad_phase_pairs[k][2]]))
        /\ BitAnd(bodies[m_broad_phase_pairs[k][1]].collider.layer_mask,
                  bodies[m_broad_phase_pairs[k][2]].collider.layer_mask) # 0
        /\ bodies[m_broad_phase_pairs[k][1]].collider.type # "none"
        /\ bodies[m_broad_phase_pairs[k][2]].collider.type # "none"

\* The broad phase has run on a scene with two static bodies on a common
\* layer and two colliders without a common layer, and has emitted a pair.
C2_witness ==
    /\ pc = "detect_collisions_narrow"
    /\ Len(m_broad_phase_pairs) > 0
    /\ \E i, j \in 1..Len(bodies) :
          /\ i < j /\ is_static(bodies[i]) /\ is_static(bodies[j])
          /\ has_collider(bodies[i]) /\ has_collider(bodies[j])
          /\ BitAnd(bodies[i].collider.layer_mask, bodies[j].collider.layer_mask) # 0
    /\ \E i, j \in 1..Len(bodies) :
          /\ i < j /\ has_collider(bodies[i]) /\ has_collider(bodies[j])
          /\ BitAnd(bodies[i].collider.layer_mask, bodies[j].collider.layer_mask) = 0

\* The pairs (i, j), i before j in the registry, that the contract of the
\* broad phase asks for.
expected_pairs ==
    {p \in (1..Len(bodies)) \X (1..Len(bodies)) :
        /\ p[1] < p[2]
        /\ bodies[p[1]].collider.type # "none" /\ bodies[p[2]].collider.type # "none"
        /\ BitAnd(bodies[p[1]].collider.layer_mask, bodies[p[2]].collider.layer_mask) # 0
        /\ ~(is_static(bodies[p[1]]) /\ is_static(bodies[p[2]]))}

\* C3: after the broad phase the pair list holds exactly the pairs (A, B), A
\* before B in the registry, with two colliders on a common layer that are
\* not both static, each of them once.
C3_broad_phase_pairs_exact ==
    "detect_collisions_broad" \in Range(phase_log) =>
        /\ Range(m_broad_phase_pairs) = expected_pairs
        /\ Len(m_broad_phase_pairs) = Cardinality(expected_pairs)

\* The broad phase has run on three bodies, kept two pairs and dropped one.
C3_witness ==
    /\ pc = "detect_collisions_narrow"
    /\ Len(bodies) = 3
    /\ Len(m_broad_phase_pairs) = 2

\* C4: every pair the narrow phase dispatches has both collider types among
\* plane, sphere, box and capsule, and the call does not end in the table.
C4_dispatch_stays_in_table ==
    /\ pc # "aborted"
    /\ \A k \in 1..Len(dispatch_log) :
          /\ dispatch_log[k][1] \in {"plane", "sphere", "box", "capsule"}
          /\ dispatch_log[k][2] \in {"plane", "sphere", "box", "capsule"}

\* Broad-phase pair k was dispatched to the table cell of types ta, tb.
dispatched(k, ta, tb) == dispatch_log[k] = <<ta, tb>>

\* World-space centre and radius of the sphere collider of body i.
sphere_center(i) == TApply(get_transform(bodies[i]), bodies[i].collider.center)
sphere_radius(i) == bodies[i].collider.radius

\* Squared distance of the sphere centres, and sum of radii, of pair k.
pair_sqr_distance(k) ==
    sqr_length(VSub(sphere_center(m_broad_phase_pairs[k][2]),
                    sphere_center(m_broad_phase_pairs[k][1])))
pair_sum_radii(k) ==
    RAdd(sphere_radius(m_broad_phase_pairs[k][1]), sphere_radius(m_broad_phase_pairs[k][2]))

\* C5: narrow_phase_sphere_sphere appends a manifold iff the squared distance
\* d^2 of the centres satisfies 0 < d^2 <= (ra + rb)^2; the manifold has one
\* contact of depth ra + rb - d.  Radius-1 spheres at distance 3/2 give
\* depth 1/2, at distance 2 depth 0, and beyond the sum of radii nothing.
C5_sphere_sphere_manifold ==
    narrow_returned =>
        \A k \in 1..Len(dispatch_log) :
            dispatched(k, "sphere", "sphere") =>
                /\ (manifolds_of(k) # {}) <=>
                       (RGt(pair_sqr_distance(k), Zero)
                        /\ RLe(pair_sqr_distance(k),
                               RMul(pair_sum_radii(k), pair_sum_radii(k))))
                /\ \A m \in manifolds_of(k) :
                       /\ m.contact_count = 1
                       /\ Len(m.contacts) = 1
                       /\ m.contacts[1].depth =
                              RSub(pair_sum_radii(k), Sqrt(pair_sqr_distance(k)))
                /\ (pair_sum_radii(k) = Q(2) /\ pair_sqr_distance(k) = Rat(9, 4)) =>
                       \E m \in manifolds_of(k) : m.contacts[1].depth = Rat(1, 2)
                /\ (pair_sum_radii(k) = Q(2) /\ pair_sqr_distance(k) = Q(4)) =>
                       \E m \in manifolds_of(k) : m.contacts[1].depth = Zero
                /\ RGt(pair_sqr_distance(k), RMul(pair_sum_radii(k), pair_sum_radii(k))) =>
                       manifolds_of(k) = {}

\* Two radius-1 spheres exactly touching have gone through the narrow phase
\* and left a manifold.
C5_witness ==
    /\ narrow_returned
    /\ \E k \in 1..Len(dispatch_log) :
          /\ dispatched(k, "sphere", "sphere")
          /\ pair_sum_radii(k) = Q(2)
          /\ pair_sqr_distance(k) = Q(4)
          /\ manifolds_of(k) # {}

\* World-space normal and constant of the plane collider of body i.
plane_normal_of(i) == QRotate(get_orientation(bodies[i]), bodies[i].collider.normal)
plane_constant_of(i) ==
    RSub(bodies[i].collider.constant, dot(plane_normal_of(i), get_position(bodies[i])))

\* World-space corner c of the box collider of body i, in the order
\* (min, min, min), (min, min, max), (min, max, min), (min, max, max),
\* (max, min, min), (max, min, max), (max, max, min), (max, max, max).
box_corner(i, c) ==
    TApply(get_transform(bodies[i]),
           <<(IF c \in {1, 2, 3, 4} THEN bodies[i].collider.min[1] ELSE bodies[i].collider.max[1]),
             (IF c \in {1, 2, 5, 6} THEN bodies[i].collider.min[2] ELSE bodies[i].collider.max[2]),
             (IF c \in {1, 3, 5, 7} THEN bodies[i].collider.min[3] ELSE bodies[i].collider.max[3])>>)

\* Signed distance of corner c of box j to the plane of body i.
corner_distance(i, j, c) == RAdd(dot(plane_normal_of(i), box_corner(j, c)), plane_constant_of(i))

\* The corners of box j on or below the plane of body i, and the first four
\* of them.
corners_below(i, j) == {c \in 1..8 : RLe(corner_distance(i, j, c), Zero)}
corners_kept(i, j) ==
    {c \in corners_below(i, j) : Cardinality({b \in corners_below(i, j) : b < c}) < 4}

\* The r-th corner kept, in corner order.
kept_corner(i, j, r) ==
    CHOOSE c \in corners_kept(i, j) : Cardinality({b \in corners_kept(i, j) : b < c}) = r - 1

\* C6: narrow_phase_plane_box reports one contact per corner of the box with
\* signed distance <= 0 to the plane, in corner order, at most four, and no
\* manifold when there is no such corner.  The box (-1,-1,-1)..(1,1,1) with
\* its bottom face on the plane y = 0 gives its 4 bottom corners, depth 0.
C6_plane_box_contacts ==
    narrow_returned =>
        \A k \in 1..Len(dispatch_log) :
            dispatched(k, "plane", "box") =>
                /\ (manifolds_of(k) # {}) <=>
                       (corners_below(m_broad_phase_pairs[k][1], m_broad_phase_pairs[k][2]) # {})
                /\ \A m \in manifolds_of(k) :
                       /\ m.contact_count =
                              Cardinality(corners_kept(m_broad_phase_pairs[k][1],
                                                       m_broad_phase_pairs[k][2]))
                       /\ Len(m.contacts) = m.contact_count
                       /\ m.contact_count <= 4
                       /\ \A r \in 1..m.contact_count :
                              /\ m.contacts[r].point =
                                     box_corner(m.body_b, kept_corner(m.body_a, m.body_b, r))
                              /\ m.contacts[r].depth =
                                     RAbs(corner_distance(m.body_a, m.body_b,
                                                          kept_corner(m.body_a, m.body_b, r)))
                              /\ m.contacts[r].normal = plane_normal_of(m.body_a)
                       /\ (/\ bodies[m.body_a] = Ground
                           /\ bodies[m.body_b].collider.min = V(-1, -1, -1)
                           /\ bodies[m.body_b].collider.max = V(1, 1, 1)
                           /\ get_transform(bodies[m.body_b]) =
                                  Transform(V(0, 1, 0), QIdentity, V(1, 1, 1))) =>
                              /\ m.contact_count = 4
                              /\ m.contacts[1].point = V(-1, 0, -1)
                              /\ m.contacts[2].point = V(-1, 0, 1)
                              /\ m.contacts[3].point = V(1, 0, -1)
                              /\ m.contacts[4].point = V(1, 0, 1)
                              /\ \A r \in 1..4 : m.contacts[r].depth = Zero

\* The box resting on the plane y = 0 has gone through the narrow phase and
\* left a manifold of four contacts.
C6_witness ==
    /\ narrow_returned
    /\ \E k \in 1..Len(dispatch_log) :
          /\ dispatched(k, "plane", "box")
          /\ get_position(bodies[m_broad_phase_pairs[k][2]]) = V(0, 1, 0)
          /\ get_orientation(bodies[m_broad_phase_pairs[k][2]]) = QIdentity
          /\ \E m \in manifolds_of(k) : m.contact_count = 4

\* C7: narrow_phase_sphere_plane(S, P) appends what narrow_phase_plane_sphere(P, S)
\* appends: the same number of manifolds, with the same contact point and
\* depth, and the same normal (the world-space plane normal).
C7_sphere_plane_mirrors_plane_sphere ==
    narrow_returned =>
        \A k \in 1..Len(dispatch_log) :
            dispatched(k, "sphere", "plane") =>
                /\ Cardinality(manifolds_of(k)) =
                       Len(narrow_phase_plane_sphere(bodies, m_broad_phase_pairs[k][2],
                                                     m_broad_phase_pairs[k][1]))
                /\ \A m \in manifolds_of(k) :
                       \E d \in Range(narrow_phase_plane_sphere(bodies,
                                                                m_broad_phase_pairs[k][2],
                                                                m_broad_phase_pairs[k][1])) :
                           /\ m.contact_count = d.contact_count
                           /\ m.contacts[1].point = d.contacts[1].point
                           /\ m.contacts[1].depth = d.contacts[1].depth
                           /\ m.contacts[1].normal = d.contacts[1].normal
                           /\ m.contacts[1].normal = plane_normal_of(m_broad_phase_pairs[k][2])

\* A sphere registered before the plane it penetrates has gone through the
\* narrow phase and left a manifold.
C7_witness ==
    /\ narrow_returned
    /\ \E k \in 1..Len(dispatch_log) :
          /\ dispatched(k, "sphere", "plane")
          /\ manifolds_of(k) # {}

\* The contact that entry e of contact_log or correction_log is about.
contact_of(e) == m_narrow_phase_manifolds[e.manifold].contacts[e.contact]

\* The clamp condition of a solved contact s, and the friction impulse
\* magnitude that has to be applied according to it.
kinetic_cap_engaged(s) ==
    RGe(RAbs(s.friction_impulse_raw), RMul(s.reaction_impulse_mag, s.static_friction_coef))
friction_to_apply(s) ==
    IF kinetic_cap_engaged(s)
    THEN RNeg(RMul(s.reaction_impulse_mag, s.dynamic_friction_coef))
    ELSE s.friction_impulse_raw

\* C8: for every non-separating contact, when |friction impulse magnitude| >=
\* reaction impulse magnitude x static friction coefficient the friction
\* impulse applied to the bodies has magnitude reaction impulse magnitude x
\* dynamic friction coefficient, and otherwise the computed value is applied
\* unchanged: body B receives the reaction impulse and then the tangent
\* scaled by that magnitude, body A the opposite.
C8_friction_clamp_applied ==
    \A k \in 1..Len(contact_log) :
        ~contact_log[k].solved.skipped =>
            /\ kinetic_cap_engaged(contact_log[k].solved) =>
                   RAbs(contact_log[k].solved.friction_impulse_mag) =
                       RMul(contact_log[k].solved.reaction_impulse_mag,
                            contact_log[k].solved.dynamic_friction_coef)
            /\ ~kinetic_cap_engaged(contact_log[k].solved) =>
                   contact_log[k].solved.friction_impulse_mag =
                       contact_log[k].solved.friction_impulse_raw
            /\ contact_log[k].momentum_b_after =
                   VAdd(VAdd(contact_log[k].momentum_b_before,
                             VScale(contact_of(contact_log[k]).normal,
                                    contact_log[k].solved.reaction_impulse_mag)),
                        VScale(contact_log[k].solved.contact_tangent,
                               friction_to_apply(contact_log[k].solved)))
            /\ contact_log[k].momentum_a_after =
                   VAdd(VAdd(contact_log[k].momentum_a_before,
                             VNeg(VScale(contact_of(contact_log[k]).normal,
                                         contact_log[k].solved.reaction_impulse_mag))),
                        VNeg(VScale(contact_log[k].solved.contact_tangent,
                                    friction_to_apply(contact_log[k].solved))))

\* A sliding contact whose computed friction impulse exceeded the static
\* limit has been resolved.
C8_witness ==
    \E k \in 1..Len(contact_log) :
        /\ ~contact_log[k].solved.skipped
        /\ kinetic_cap_engaged(contact_log[k].solved)
        /\ contact_log[k].solved.contact_tangent # VZero
        /\ RGt(contact_log[k].solved.reaction_impulse_mag, Zero)
        /\ contact_log[k].solved.friction_impulse_raw # friction_to_apply(contact_log[k].solved)

\* 0.4 * max(0, depth - 0.01) / (invMassA + invMassB) along the normal, for
\* entry e of correction_log.
expected_correction(e) ==
    VScale(VScale(e.normal,
                  RDiv(RMax(Zero, RSub(e.depth, Rat(1, 100))),
                       RAdd(e.inverse_mass_a, e.inverse_mass_b))),
           Rat(4, 10))

\* The depth of e is a whole number of hundredths and its normal is a
\* coordinate axis, so that the correction is computed without rounding.
decimal_contact(e) ==
    /\ 100 % e.depth[2] = 0
    /\ e.normal \in {V(1, 0, 0), V(-1, 0, 0), V(0, 1, 0), V(0, -1, 0), V(0, 0, 1), V(0, 0, -1)}
    /\ e.inverse_mass_a \in {Zero, Rat(1, 2), One}
    /\ e.inverse_mass_b \in {Zero, Rat(1, 2), One}

\* C9: correct_positions moves body A by -n c invMassA and body B by
\* +n c invMassB with c = 0.4 max(0, depth - 0.01) / (invMassA + invMassB);
\* the two moves add up to 0.4 max(0, depth - 0.01) along the normal; equal
\* masses at depth 0.05 move by equal and opposite amounts that total
\* 0.016; a depth of at most 0.01 moves neither body.
C9_position_correction ==
    \A k \in 1..Len(correction_log) :
        /\ correction_log[k].position_a_after =
               VSub(correction_log[k].position_a_before,
                    VScale(expected_correction(correction_log[k]),
                           correction_log[k].inverse_mass_a))
        /\ correction_log[k].position_b_after =
               VAdd(correction_log[k].position_b_before,
                    VScale(expected_correction(correction_log[k]),
                           correction_log[k].inverse_mass_b))
        /\ decimal_contact(correction_log[k]) =>
               dot(VAdd(VScale(expected_correction(correction_log[k]),
                               correction_log[k].inverse_mass_a),
                        VScale(expected_correction(correction_log[k]),
                               correction_log[k].inverse_mass_b)),
                   correction_log[k].normal) =
               RMul(Rat(4, 10), RMax(Zero, RSub(correction_log[k].depth, Rat(1, 100))))
        /\ (/\ decimal_contact(correction_log[k])
            /\ correction_log[k].depth = Rat(5, 100)
            /\ correction_log[k].inverse_mass_a = correction_log[k].inverse_mass_b) =>
               /\ VScale(expected_correction(correction_log[k]),
                         correction_log[k].inverse_mass_b) =
                      VScale(expected_correction(correction_log[k]),
                             correction_log[k].inverse_mass_a)
               /\ dot(VAdd(VScale(expected_correction(correction_log[k]),
                                  correction_log[k].inverse_mass_a),
                           VScale(expected_correction(correction_log[k]),
                                  correction_log[k].inverse_mass_b)),
                      correction_log[k].normal) = Rat(16, 1000)
        /\ RLe(correction_log[k].depth, Rat(1, 100)) =>
               /\ correction_log[k].position_a_after = correction_log[k].position_a_before
               /\ correction_log[k].position_b_after = correction_log[k].position_b_before

\* Two bodies of mass 1 in contact at depth 0.05 have been corrected.
C9_witness ==
    \E k \in 1..Len(correction_log) :
        /\ correction_log[k].depth = Rat(5, 100)
        /\ correction_log[k].inverse_mass_a = One
        /\ correction_log[k].inverse_mass_b = One
        /\ correction_log[k].position_a_after # correction_log[k].position_a_before

\* C10: interpolate(0) returns exactly the previous transform and
\* interpolate(1) exactly the current transform of every body: translation,
\* rotation and scale.
C10_interpolate_end_points ==
    /\ interpolate_log = <<Zero>> =>
           \A i \in 1..Len(bodies) : scene_objects[i] = bodies[i].previous_transform
    /\ interpolate_log = <<One>> =>
           \A i \in 1..Len(bodies) : scene_objects[i] = bodies[i].current_transform

(***************************************************************************)
(* rigid_body::integrate_forces without external input.                    *)
(***************************************************************************)
\* Body i has no applied force, no applied torque and no damping.
no_external_input(i) ==
    /\ bodies[i].applied_force = VZero
    /\ bodies[i].applied_torque = VZero
    /\ bodies[i].linear_damping = Zero
    /\ bodies[i].angular_damping = Zero

\* C11: whenever the integrate phase runs integrate_forces(dt) on a body with
\* zero applied force and torque and zero damping, the body's linear and
\* angular momentum after the call are the ones before it, for every dt.
C11_momentum_kept_without_input ==
    [][pc = "integrate" =>
          \A i \in 1..Len(bodies) :
              no_external_input(i) =>
                  /\ bodies'[i].linear_momentum = bodies[i].linear_momentum
                  /\ bodies'[i].angular_momentum = bodies[i].angular_momentum]_vars

\* The integrate phase has run on a scene without constraints, so that no
\* force was applied, and left a body with the momentum it had.
C11_witness ==
    /\ pc = "correct_positions"
    /\ constraints = <<>>
    /\ \E i \in 1..Len(bodies) :
        /\ bodies[i].linear_momentum # VZero
        /\ bodies[i].applied_force = VZero
        /\ bodies[i].current_transform # bodies[i].previous_transform

(***************************************************************************)
(* rigid_body::apply_impulse on static bodies.                             *)
(***************************************************************************)
\* C12: the impulses resolve_collisions applies never change the linear or
\* angular momentum of a static body (inverse mass 0, inverse inertia 0).
C12_static_momentum_untouched ==
    [][pc = "resolve_collisions" =>
          \A i \in 1..Len(bodies) :
              (bodies[i].inverse_mass = Zero /\ bodies[i].inverse_inertia = Zero) =>
                  /\ bodies'[i].linear_momentum = bodies[i].linear_momentum
                  /\ bodies'[i].angular_momentum = bodies[i].angular_momentum]_vars

(***************************************************************************)
(* The transform components update leaves.                                 *)
(***************************************************************************)
\* update has returned at least once and no call is running.
update_returned == pc = "idle" /\ steps > 0

\* C13: when update returns, the local transform of every entity with a rigid
\* body and a transform component is the body's current transform, as
\* integration and position correction of this step left it.
C13_transform_components_current ==
    update_returned =>
        \A i \in 1..Len(bodies) :
            transforms[i].present => transforms[i].local = bodies[i].current_transform

\* update returned for an entity with a transform component whose body was
\* moved by the integration and then by a position correction.
C13_witness ==
    /\ update_returned
    /\ \E e \in 1..Len(correction_log) : \E i \in 1..Len(bodies) :
        /\ correction_log[e].body_b = i
        /\ correction_log[e].position_b_after # correction_log[e].position_b_before
        /\ transforms[i].present
        /\ transforms[i].local = bodies[i].current_transform
        /\ bodies[i].current_transform # bodies[i].previous_transform

(***************************************************************************)
(* physics_system::trace                                                   *)
(***************************************************************************)
\* Body i may be hit by the traced ray: it is not the ignored entity, has a
\* collider on one of the traced layers, and the collider is a mesh.
eligible(q, i) ==
    /\ i # q.ignore_eid
    /\ bodies[i].collider.type # "none"
    /\ BitAnd(bodies[i].collider.layer_mask, q.layer_mask) # 0
    /\ bodies[i].collider.type = "mesh"

\* The traced ray meets a face of the mesh of body i.
intersected(q, i) ==
    mesh_intersection(bodies[i].collider,
                      body_space_ray(q.ray, bodies[i].current_transform)) # <<>>

\* C14: trace returns the empty result exactly when no eligible body is
\* intersected, and a returned entity is never the ignored one, always has a
\* collider sharing a layer with layer_mask, and that collider is a mesh that
\* the ray intersects.
C14_trace_hits_only_eligible_meshes ==
    \A k \in 1..Len(trace_log) :
        /\ trace_log[k].result = <<>> <=>
               ~\E i \in 1..Len(bodies) :
                   eligible(trace_log[k], i) /\ intersected(trace_log[k], i)
        /\ trace_log[k].result # <<>> =>
               /\ trace_log[k].result[1].entity \in 1..Len(bodies)
               /\ eligible(trace_log[k], trace_log[k].result[1].entity)
               /\ intersected(trace_log[k], trace_log[k].result[1].entity)

\* A trace returned a hit although the ray also meets a mesh on an untraced
\* layer.
C14_witness ==
    \E k \in 1..Len(trace_log) :
        /\ trace_log[k].result # <<>>
        /\ \E i \in 1..Len(bodies) :
            /\ bodies[i].collider.type = "mesh"
            /\ i # trace_log[k].ignore_eid
            /\ ~eligible(trace_log[k], i)
            /\ intersected(trace_log[k], i)

(***************************************************************************)
(* Shape pairs without a narrow-phase implementation.                      *)
(***************************************************************************)
\* The cells of the table whose routine returns at once.
UnimplementedCells ==
    {<<"plane", "plane">>, <<"sphere", "box">>, <<"box", "sphere">>,
     <<"box", "box">>, <<"box", "capsule">>, <<"capsule", "box">>}

\* Every pair the running (or last) call dispatched was of an unimplemented cell.
only_unimplemented_pairs ==
    /\ Len(dispatch_log) > 0
    /\ \A k \in 1..Len(dispatch_log) : dispatch_log[k] \in UnimplementedCells

\* The narrow phase of the running (or last) call has returned.
narrow_done == "detect_collisions_narrow" \in Range(phase_log)

\* C15: the routines for plane-plane, sphere-box, box-sphere, box-box,
\* box-capsule and capsule-box append no manifold and do not fail: a pair
\* dispatched to one of them has no manifold, and a step with only such pairs
\* runs to its end with an empty manifold list, no impulse and no position
\* correction.
C15_unimplemented_pairs_are_silent ==
    /\ narrow_done =>
           \A k \in 1..Len(dispatch_log) :
               dispatch_log[k] \in UnimplementedCells => manifolds_of(k) = {}
    /\ (narrow_done /\ only_unimplemented_pairs) =>
           /\ pc # "aborted"
           /\ m_narrow_phase_manifolds = <<>>
           /\ contact_log = <<>>
           /\ correction_log = <<>>

\* A step with two overlapping boxes that approach each other, and nothing
\* else, has run to its end.
C15_witness ==
    /\ update_returned
    /\ only_unimplemented_pairs
    /\ <<"box", "box">> \in Range(dispatch_log)
    /\ Len(bodies) = 2
    /\ get_position(bodies[1]) # get_position(bodies[2])
    /\ bodies[1].linear_momentum # bodies[2].linear_momentum
    /\ contact_log = <<>>

(***************************************************************************)
(* event::queue::flush                                                     *)
(***************************************************************************)
\* The enqueue numbers of a sequence of messages.
Ids(messages) == [k \in 1..Len(messages) |-> messages[k].id]

increasing(ids) == \A j, k \in 1..Len(ids) : j < k => ids[j] < ids[k]

is_prefix(s, u) == Len(s) <= Len(u) /\ \A k \in 1..Len(s) : s[k] = u[k]

\* What the running flush has dispatched, followed by what it still has to.
flush_order == Ids(flush_log) \o Ids(m_messages)

\* C16: flush dispatches every queued message exactly once and in the order
\* of the enqueue calls, also the messages subscribers enqueue while it runs
\* (they come after every message enqueued before them), and returns with
\* the queue empty.
C16_flush_is_fifo ==
    [][/\ flushing =>
            /\ increasing(flush_order)
            /\ increasing(Ids(delivered))
       /\ (flushing /\ flushing') =>
            /\ is_prefix(flush_order, flush_order')
            /\ \A k \in (Len(flush_order) + 1)..Len(flush_order') :
                   flush_order'[k] > published
            /\ is_prefix(Ids(flush_log), Ids(flush_log'))
       /\ (flushing /\ ~flushing') =>
            /\ m_messages' = <<>>
            /\ flush_log' = flush_log
            /\ increasing(Ids(flush_log'))]_vars

\* A flush has returned after dispatching a message that a subscriber
\* enqueued while it ran behind a message that was queued before.
C16_witness ==
    /\ ~flushing
    /\ m_messages = <<>>
    /\ Len(flush_log) >= 3
    /\ \E k \in 1..Len(flush_log) : flush_log[k].type = "pong"
    /\ published > Len(flush_log)

(***************************************************************************)
(* The lists of one step hold nothing of an earlier step.                  *)
(***************************************************************************)
\* The phase p of the running (or last) call of update has returned.
phase_done(p) == p \in Range(phase_log)

no_repeats(list) == \A j, k \in 1..Len(list) : list[j] = list[k] => j = k

\* C17: in every step the pair list and the manifold list hold only what the
\* detection phases of that step produced: after the broad phase the pair
\* list is the list of the registry's qualifying pairs, each once; when the
\* narrow phase returns the manifold list is what the routines yield for
\* these pairs on the bodies as they are; impulses and corrections are
\* recorded only for manifolds of that list, and none when it is empty.
C17_lists_rebuilt_every_step ==
    /\ phase_done("detect_collisions_broad") =>
           /\ m_broad_phase_pairs = broad_phase_pairs(bodies)
           /\ no_repeats(m_broad_phase_pairs)
    /\ narrow_returned =>
           m_narrow_phase_manifolds =
               narrow_loop(bodies, m_broad_phase_pairs, 1, Len(m_broad_phase_pairs), <<>>)
    /\ phase_done("detect_collisions_narrow") =>
           /\ Len(m_narrow_phase_manifolds) <= Len(m_broad_phase_pairs)
           /\ \A e \in 1..Len(contact_log) :
                  contact_log[e].manifold \in 1..Len(m_narrow_phase_manifolds)
           /\ \A e \in 1..Len(correction_log) :
                  /\ correction_log[e].manifold \in 1..Len(m_narrow_phase_manifolds)
                  /\ correction_log[e].body_a =
                         m_narrow_phase_manifolds[correction_log[e].manifold].body_a
                  /\ correction_log[e].body_b =
                         m_narrow_phase_manifolds[correction_log[e].manifold].body_b
           /\ m_narrow_phase_manifolds = <<>> => contact_log = <<>> /\ correction_log = <<>>

\* The second step has run to its end without a manifold, an impulse or a
\* correction, although its pair list is not empty and the first step had a
\* manifold.
C17_witness ==
    /\ update_returned
    /\ steps = 2
    /\ manifold_history[1] > 0
    /\ manifold_history[2] = 0
    /\ m_broad_phase_pairs # <<>>
    /\ m_narrow_phase_manifolds = <<>>
    /\ contact_log = <<>>
    /\ correction_log = <<>>

(***************************************************************************)
(* Shape of the manifold list.                                             *)
(***************************************************************************)
\* The positions in the manifold list of the manifolds of broad-phase pair k.
manifold_indices_of(k) ==
    {n \in 1..Len(m_narrow_phase_manifolds) :
        {m_narrow_phase_manifolds[n].body_a, m_narrow_phase_manifolds[n].body_b}
            = {m_broad_phase_pairs[k][1], m_broad_phase_pairs[k][2]}}

\* C18: every dispatched pair has at most one manifold in the list, and every
\* manifold of the list has between 1 and 4 contacts and names the two
\* distinct bodies of a dispatched pair; none has zero contacts.
C18_manifold_list_well_formed ==
    phase_done("detect_collisions_narrow") =>
        /\ \A k \in 1..Len(m_broad_phase_pairs) : Cardinality(manifold_indices_of(k)) <= 1
        /\ \A n \in 1..Len(m_narrow_phase_manifolds) :
            /\ m_narrow_phase_manifolds[n].contact_count \in 1..plane_box_contact_limit
            /\ Len(m_narrow_phase_manifolds[n].contacts)
                   = m_narrow_phase_manifolds[n].contact_count
            /\ m_narrow_phase_manifolds[n].body_a # m_narrow_phase_manifolds[n].body_b
            /\ \E k \in 1..Len(m_broad_phase_pairs) : n \in manifold_indices_of(k)

\* The narrow phase stored a manifold of 4 contacts for a box with all its
\* eight corners below the plane.
C18_witness ==
    /\ phase_done("detect_collisions_narrow")
    /\ \E n \in 1..Len(m_narrow_phase_manifolds) :
        /\ m_narrow_phase_manifolds[n].contact_count = plane_box_contact_limit
        /\ \E i \in {m_narrow_phase_manifolds[n].body_a, m_narrow_phase_manifolds[n].body_b} :
            /\ bodies[i].collider.type = "box"
            /\ \A c \in 1..8 :
                   RLt(TApply(bodies[i].current_transform,
                              box_corners(bodies[i].collider)[c])[2], Zero)

(***************************************************************************)
(* Degenerate closest points.                                              *)
(***************************************************************************)
RoundCells ==
    {<<"sphere", "sphere">>, <<"sphere", "capsule">>,
     <<"capsule", "sphere">>, <<"capsule", "capsule">>}

world_center(b) == TApply(get_transform(b), b.collider.center)
world_seg_a(b) == TApply(get_transform(b), b.collider.seg_a)
world_seg_b(b) == TApply(get_transform(b), b.collider.seg_b)

\* The closest points <<on a, on b>> of two bodies with sphere or capsule
\* colliders.
round_closest_points(a, b) ==
    IF a.collider.type = "sphere" /\ b.collider.type = "sphere"
    THEN <<world_center(a), world_center(b)>>
    ELSE IF a.collider.type = "sphere"
    THEN <<world_center(a),
           closest_point_segment(world_seg_a(b), world_seg_b(b), world_center(a))>>
    ELSE IF b.collider.type = "sphere"
    THEN <<closest_point_segment(world_seg_a(a), world_seg_b(a), world_center(b)),
           world_center(b)>>
    ELSE closest_point_segments(world_seg_a(a), world_seg_b(a),
                                world_seg_a(b), world_seg_b(b))

\* Pair k went to a sphere or capsule routine and its closest points coincide.
zero_distance_pair(k) ==
    /\ dispatch_log[k] \in RoundCells
    /\ round_closest_points(bodies[m_broad_phase_pairs[k][1]],
                            bodies[m_broad_phase_pairs[k][2]])[1]
         = round_closest_points(bodies[m_broad_phase_pairs[k][1]],
                                bodies[m_broad_phase_pairs[k][2]])[2]

finite(x) == x[2] # 0
finite_vector(v) == finite(v[1]) /\ finite(v[2]) /\ finite(v[3])

\* C19: when the closest points of a sphere-sphere, sphere-capsule,
\* capsule-sphere or capsule-capsule pair coincide, the narrow phase stores
\* no manifold for the pair, and no stored contact carries the result of a
\* division by zero.
C19_zero_distance_is_skipped ==
    narrow_returned =>
        /\ \A k \in 1..Len(m_broad_phase_pairs) :
               zero_distance_pair(k) => manifold_indices_of(k) = {}
        /\ \A n \in 1..Len(m_narrow_phase_manifolds) :
            \A c \in 1..Len(m_narrow_phase_manifolds[n].contacts) :
                /\ finite_vector(m_narrow_phase_manifolds[n].contacts[c].normal)
                /\ finite_vector(m_narrow_phase_manifolds[n].contacts[c].point)
                /\ finite(m_narrow_phase_manifolds[n].contacts[c].depth)

\* The narrow phase has handled a pair of the given kind with coincident
\* closest points.
zero_distance_seen(cell) ==
    /\ narrow_returned
    /\ \E k \in 1..Len(m_broad_phase_pairs) :
           dispatch_log[k] = cell /\ zero_distance_pair(k)

C19_witness ==
    /\ zero_distance_seen(<<"capsule", "capsule">>)
    /\ m_narrow_phase_manifolds = <<>>

C19_witness_sphere_sphere == zero_distance_seen(<<"sphere", "sphere">>)
C19_witness_sphere_capsule == zero_distance_seen(<<"sphere", "capsule">>)
C19_witness_capsule_sphere == zero_distance_seen(<<"capsule", "sphere">>)

(***************************************************************************)
(* Direction of the contact normals.                                       *)
(***************************************************************************)
\* How far a normalised vector may be from length 1 and from the direction
\* it was normalised from, as squared length and squared sine: the square
\* root is taken to 10 binary places and the quotient to 12.
UnitTolerance == Rat(1, 128)

\* v has length 1 and the direction of d, up to the rounding of the square
\* root and of the quotient.
unit_along(v, d) ==
    /\ RLe(RAbs(RSub(sqr_length(v), One)), UnitTolerance)
    /\ RLe(sqr_length(cross(v, d)), RMul(UnitTolerance, sqr_length(d)))
    /\ RGt(dot(v, d), Zero)

\* The normal of manifold m runs from its body_a to its body_b.
normal_from_a_to_b(m, normal) ==
    IF bodies[m.body_a].collider.type = "plane"
    THEN normal = plane_normal_of(m.body_a)
    ELSE /\ bodies[m.body_a].collider.type \in {"sphere", "capsule"}
         /\ bodies[m.body_b].collider.type \in {"sphere", "capsule"}
         /\ unit_along(normal,
                       VSub(round_closest_points(bodies[m.body_a], bodies[m.body_b])[2],
                            round_closest_points(bodies[m.body_a], bodies[m.body_b])[1]))

\* C20: every contact normal of every manifold points from the manifold's
\* body_a to its body_b (the world-space plane normal when body_a is the plane,
\* else the unit vector from A's centre or closest segment point to B's), also
\* after the routines that swap their arguments; resolve_collisions never
\* moves the momentum of body_a along +normal nor that of body_b along
\* -normal, and correct_positions never moves body_a along +normal nor body_b
\* along -normal.
C20_normals_point_from_a_to_b ==
    /\ narrow_returned =>
           \A n \in 1..Len(m_narrow_phase_manifolds) :
               \A c \in 1..Len(m_narrow_phase_manifolds[n].contacts) :
                   normal_from_a_to_b(m_narrow_phase_manifolds[n],
                                      m_narrow_phase_manifolds[n].contacts[c].normal)
    /\ \A k \in 1..Len(contact_log) :
           ~contact_log[k].solved.skipped =>
               /\ RLe(dot(VSub(contact_log[k].momentum_a_after,
                               contact_log[k].momentum_a_before),
                          contact_of(contact_log[k]).normal), Zero)
               /\ RGe(dot(VSub(contact_log[k].momentum_b_after,
                               contact_log[k].momentum_b_before),
                          contact_of(contact_log[k]).normal), Zero)
    /\ \A k \in 1..Len(correction_log) :
           /\ RLe(dot(VSub(correction_log[k].position_a_after,
                           correction_log[k].position_a_before),
                      correction_log[k].normal), Zero)
           /\ RGe(dot(VSub(correction_log[k].position_b_after,
                           correction_log[k].position_b_before),
                      correction_log[k].normal), Zero)

\* A capsule registered before the sphere it overlaps: the manifold names the
\* sphere as body_a, and the correction has moved the sphere against the
\* normal and the capsule along it.
C20_witness ==
    \E k \in 1..Len(correction_log) :
        /\ bodies[correction_log[k].body_a].collider.type = "sphere"
        /\ bodies[correction_log[k].body_b].collider.type = "capsule"
        /\ correction_log[k].body_b < correction_log[k].body_a
        /\ RLt(dot(VSub(correction_log[k].position_a_after,
                        correction_log[k].position_a_before),
                   correction_log[k].normal), Zero)
        /\ RGt(dot(VSub(correction_log[k].position_b_after,
                        correction_log[k].position_b_before),
                   correction_log[k].normal), Zero)

\* A contact whose resolution has moved the momenta of both bodies apart
\* along the normal.
C20_witness_impulse ==
    \E k \in 1..Len(contact_log) :
        /\ ~contact_log[k].solved.skipped
        /\ RLt(dot(VSub(contact_log[k].momentum_a_after, contact_log[k].momentum_a_before),
                   contact_of(contact_log[k]).normal), Zero)
        /\ RGt(dot(VSub(contact_log[k].momentum_b_after, contact_log[k].momentum_b_before),
                   contact_of(contact_log[k]).normal), Zero)

\* Manifolds of a mirrored plane routine and of capsule-capsule are stored.
C20_witness_capsule_plane ==
    /\ narrow_returned
    /\ \E k \in 1..Len(dispatch_log) : dispatched(k, "capsule", "plane") /\ manifolds_of(k) # {}

C20_witness_capsule_capsule ==
    /\ narrow_returned
    /\ \E k \in 1..Len(dispatch_log) : dispatched(k, "capsule", "capsule") /\ manifolds_of(k) # {}

(***************************************************************************)
(* Penetration depths.                                                     *)
(***************************************************************************)
\* C21: every contact of every manifold of the manifold list has a
\* penetration depth >= 0, whichever routine stored it.
C21_depths_non_negative ==
    \A n \in 1..Len(m_narrow_phase_manifolds) :
        \A c \in 1..Len(m_narrow_phase_manifolds[n].contacts) :
            /\ finite(m_narrow_phase_manifolds[n].contacts[c].depth)
            /\ RGe(m_narrow_phase_manifolds[n].contacts[c].depth, Zero)

\* The manifold list holds a manifold of the pair dispatched as <<ta, tb>>
\* whose first contact has a depth > 0.
deep_contact_seen(ta, tb) ==
    /\ narrow_returned
    /\ \E k \in 1..Len(dispatch_log) :
        /\ dispatched(k, ta, tb)
        /\ \E m \in manifolds_of(k) : RGt(m.contacts[1].depth, Zero)

\* A capsule whose end points are closer to the plane than its radius has
\* been given its contacts, in both registry orders.
C21_witness ==
    deep_contact_seen("plane", "capsule") \/ deep_contact_seen("capsule", "plane")

C21_witness_plane_sphere == deep_contact_seen("plane", "sphere")
C21_witness_plane_box == deep_contact_seen("plane", "box")
C21_witness_sphere_sphere == deep_contact_seen("sphere", "sphere")
C21_witness_sphere_capsule == deep_contact_seen("sphere", "capsule")
C21_witness_capsule_capsule == deep_contact_seen("capsule", "capsule")

(***************************************************************************)
(* Separating contacts.                                                    *)
(***************************************************************************)
\* The entries of contact_log for contact c of manifold n.
entries_of(n, c) ==
    {k \in 1..Len(contact_log) : contact_log[k].manifold = n /\ contact_log[k].contact = c}

\* Entry e of contact_log left both momenta of both bodies as they were.
momenta_kept(e) ==
    /\ e.momentum_a_after = e.momentum_a_before
    /\ e.momentum_b_after = e.momentum_b_before
    /\ e.angular_a_after = e.angular_a_before
    /\ e.angular_b_after = e.angular_b_before

\* C22: resolve_collisions visits every contact of every manifold once; a
\* contact is skipped exactly when its relative velocity along the normal is
\* > 0, and a skipped contact leaves the linear and angular momentum of both
\* bodies unchanged.
C22_separating_contacts_skipped ==
    phase_done("resolve_collisions") =>
        /\ \A n \in 1..Len(m_narrow_phase_manifolds) :
               \A c \in 1..m_narrow_phase_manifolds[n].contact_count :
                   Cardinality(entries_of(n, c)) = 1
        /\ \A k \in 1..Len(contact_log) :
            /\ contact_log[k].solved.skipped <=>
                   RGt(contact_log[k].solved.contact_velocity, Zero)
            /\ contact_log[k].solved.skipped => momenta_kept(contact_log[k])

\* A manifold whose first contact separates and was skipped, and whose later
\* contact was resolved with an impulse.
C22_witness ==
    /\ phase_done("resolve_collisions")
    /\ \E j, k \in 1..Len(contact_log) :
        /\ j < k
        /\ contact_log[j].manifold = contact_log[k].manifold
        /\ contact_log[j].solved.skipped
        /\ ~contact_log[k].solved.skipped
        /\ ~momenta_kept(contact_log[k])

(***************************************************************************)
(* Opposite impulses.                                                      *)
(***************************************************************************)
\* The sum of the linear momenta of bodies i.. of registry bs.
RECURSIVE total_linear_momentum(_, _)
total_linear_momentum(bs, i) ==
    IF i > Len(bs) THEN VZero
    ELSE VAdd(bs[i].linear_momentum, total_linear_momentum(bs, i + 1))

\* How far a sum of momenta and impulses may be from the exact sum: each
\* addition is rounded to 12 binary places.
SumTolerance == Rat(1, 256)

\* Vectors a and b are equal up to the rounding of the additions.
near(a, b) ==
    \A x \in 1..3 : finite(a[x]) /\ finite(b[x]) /\ RLe(RAbs(RSub(a[x], b[x])), SumTolerance)

\* Entry e of the contact log gave body B its reaction and friction impulse
\* and body A the negation of both.
opposite_impulses(e) ==
    /\ near(VSub(e.momentum_b_after, e.momentum_b_before),
            VAdd(e.solved.reaction_impulse, e.solved.friction_impulse))
    /\ near(VSub(e.momentum_a_after, e.momentum_a_before),
            VAdd(VNeg(e.solved.reaction_impulse), VNeg(e.solved.friction_impulse)))
    /\ near(VAdd(VSub(e.momentum_a_after, e.momentum_a_before),
                 VSub(e.momentum_b_after, e.momentum_b_before)), VZero)

\* C23: resolve_collisions gives body A of every contact it processes the
\* exact negation of the reaction impulse and of the friction impulse it
\* gives body B, and the sum of the linear momenta of all bodies is the same
\* after the phase as before it, up to the rounding of the additions.
C23_impulses_are_opposite ==
    [][pc = "resolve_collisions" =>
          /\ near(total_linear_momentum(bodies', 1), total_linear_momentum(bodies, 1))
          /\ \A k \in 1..Len(contact_log') :
                 ~contact_log'[k].solved.skipped => opposite_impulses(contact_log'[k])]_vars

\* Two dynamic bodies have exchanged a reaction impulse and a friction
\* impulse, both non-zero.
C23_witness ==
    /\ phase_done("resolve_collisions")
    /\ \E k \in 1..Len(contact_log) :
        /\ ~contact_log[k].solved.skipped
        /\ ~is_static(bodies[contact_log[k].solved.body_a])
        /\ ~is_static(bodies[contact_log[k].solved.body_b])
        /\ contact_log[k].solved.reaction_impulse # VZero
        /\ contact_log[k].solved.friction_impulse # VZero
        /\ contact_log[k].momentum_a_after # contact_log[k].momentum_a_before

(***************************************************************************)
(* Frame of correct_positions.                                             *)
(***************************************************************************)
\* Body after differs from body before in nothing but the translation of its
\* current transform.
only_translated(before, after) ==
    after = [before EXCEPT !.current_transform.translation =
                               after.current_transform.translation]

\* C24: correct_positions changes nothing but the translation of the current
\* transform of bodies: momenta, velocities, orientation, scale and previous
\* transform of every body, the number of bodies and the manifold list are
\* the same after it as before it.
C24_correction_only_translates ==
    [][pc = "correct_positions" =>
          /\ Len(bodies') = Len(bodies)
          /\ \A i \in 1..Len(bodies) : only_translated(bodies[i], bodies'[i])
          /\ m_narrow_phase_manifolds' = m_narrow_phase_manifolds
          /\ m_broad_phase_pairs' = m_broad_phase_pairs]_vars

\* correct_positions has moved a body that has momentum and that the
\* integration of this step had moved before.
C24_witness ==
    /\ phase_done("correct_positions")
    /\ \E k \in 1..Len(correction_log) :
        /\ correction_log[k].position_b_after # correction_log[k].position_b_before
        /\ bodies[correction_log[k].body_b].linear_momentum # VZero
        /\ bodies[correction_log[k].body_b].previous_transform.translation
               # correction_log[k].position_b_before

(***************************************************************************)
(* Velocities follow momentum.                                             *)
(***************************************************************************)
\* The velocities of body b are its momenta scaled by the inverse mass and
\* the inverse inertia, and its accumulators are empty.
velocities_from_momentum(b) ==
    /\ b.linear_velocity = VScale(b.linear_momentum, b.inverse_mass)
    /\ b.angular_velocity = VScale(b.angular_momentum, b.inverse_inertia)
    /\ b.applied_force = VZero
    /\ b.applied_torque = VZero

\* C25: when update returns, the linear velocity of every body is
\* inverse_mass x linear momentum, its angular velocity is inverse_inertia x
\* angular momentum, and its applied force and torque are zero; in
\* particular the momentum that resolve_collisions and the constraints of
\* the step have changed is the one the velocities are taken from.
C25_velocities_follow_momentum ==
    update_returned => \A i \in 1..Len(bodies) : velocities_from_momentum(bodies[i])

\* update returned after a step in which a spring between two bodies was
\* solved and a contact gave a dynamic body an impulse, and that body moves.
C25_witness ==
    /\ update_returned
    /\ \E c \in 1..Len(constraints) :
           constraints[c].body_b # 0 /\ constraints[c].solve_calls > 0
    /\ \E k \in 1..Len(contact_log) :
        /\ ~contact_log[k].solved.skipped
        /\ contact_log[k].momentum_b_after # contact_log[k].momentum_b_before
        /\ bodies[contact_log[k].solved.body_b].linear_velocity # VZero
        /\ velocities_from_momentum(bodies[contact_log[k].solved.body_b])

(***************************************************************************)
(* The nearest hit of a trace.                                             *)
(***************************************************************************)
\* What the mesh of body i returns for the ray of trace q.
hit_of(q, i) ==
    mesh_intersection(bodies[i].collider,
                      body_space_ray(q.ray, bodies[i].current_transform))

\* The squared world-space distance from the ray origin of trace q to the
\* point where the ray meets the mesh of body i.
hit_sqr_distance(q, i) ==
    sqr_distance(TApply(bodies[i].current_transform,
                        extrapolate(body_space_ray(q.ray, bodies[i].current_transform),
                                    hit_of(q, i)[1])),
                 q.ray.origin)

\* The bodies the loop of trace q intersects.
hits(q) == {i \in 1..Len(bodies) : eligible(q, i) /\ intersected(q, i)}

\* C26: the entity a trace returns has the smallest squared world-space
\* distance of all eligible meshes the ray meets, and among those at exactly
\* that distance it is the first in registry order; the returned distance,
\* face index and normal are those of that entity's hit.
C26_trace_returns_nearest ==
    \A k \in 1..Len(trace_log) :
        trace_log[k].result # <<>> =>
            /\ \A i \in hits(trace_log[k]) :
                /\ RLe(hit_sqr_distance(trace_log[k], trace_log[k].result[1].entity),
                       hit_sqr_distance(trace_log[k], i))
                /\ hit_sqr_distance(trace_log[k], i) =
                       hit_sqr_distance(trace_log[k], trace_log[k].result[1].entity)
                   => trace_log[k].result[1].entity <= i
            /\ trace_log[k].result[1].distance =
                   Sqrt(hit_sqr_distance(trace_log[k], trace_log[k].result[1].entity))
            /\ trace_log[k].result[1].face_index =
                   hit_of(trace_log[k], trace_log[k].result[1].entity)[2]
            /\ trace_log[k].result[1].normal =
                   normalize(QRotate(bodies[trace_log[k].result[1].entity]
                                         .current_transform.rotation,
                                     VDiv(hit_of(trace_log[k],
                                                 trace_log[k].result[1].entity)[3],
                                          bodies[trace_log[k].result[1].entity]
                                              .current_transform.scale)))

\* The ray of a trace meets two eligible meshes and the nearer one, which is
\* returned, is the later one in the registry.
C26_witness ==
    \E k \in 1..Len(trace_log) :
        /\ trace_log[k].result # <<>>
        /\ \E i \in hits(trace_log[k]) :
            /\ i < trace_log[k].result[1].entity
            /\ RLt(hit_sqr_distance(trace_log[k], trace_log[k].result[1].entity),
                   hit_sqr_distance(trace_log[k], i))

\* The ray meets two eligible meshes at the same distance and the first is
\* returned.
C26_witness_tie ==
    \E k \in 1..Len(trace_log) :
        /\ trace_log[k].result # <<>>
        /\ \E i \in hits(trace_log[k]) :
            /\ trace_log[k].result[1].entity < i
            /\ hit_sqr_distance(trace_log[k], trace_log[k].result[1].entity) =
                   hit_sqr_distance(trace_log[k], i)

\* The nearer of two meshes is the earlier one and is returned.
C26_witness_first_nearer ==
    \E k \in 1..Len(trace_log) :
        /\ trace_log[k].result # <<>>
        /\ \E i \in hits(trace_log[k]) :
            /\ trace_log[k].result[1].entity < i
            /\ RLt(hit_sqr_distance(trace_log[k], trace_log[k].result[1].entity),
                   hit_sqr_distance(trace_log[k], i))

(***************************************************************************)
(* Order of the contacts of a manifold.                                    *)
(***************************************************************************)
\* The orders in which the contact slots of a manifold can be visited.
ContactOrders ==
    {order \in [1..plane_box_contact_limit -> 1..plane_box_contact_limit] :
        \A j, k \in 1..plane_box_contact_limit : order[j] = order[k] => j = k}

\* The registry after the contacts of manifold m are resolved in the order
\* order[j], order[j + 1], ..., leaving out the slots the manifold does not use.
RECURSIVE resolve_manifold_in_order(_, _, _, _)
resolve_manifold_in_order(bs, m, order, j) ==
    IF j > plane_box_contact_limit THEN bs
    ELSE IF order[j] > m.contact_count THEN resolve_manifold_in_order(bs, m, order, j + 1)
    ELSE resolve_manifold_in_order(apply_contact(bs, solve_contact(bs, m, m.contacts[order[j]])),
                                   m, order, j + 1)

\* The registry after manifolds k.. are resolved, each in the given order.
RECURSIVE resolve_in_order(_, _, _, _)
resolve_in_order(bs, ms, order, k) ==
    IF k > Len(ms) THEN bs
    ELSE resolve_in_order(resolve_manifold_in_order(bs, ms[k], order, 1), ms, order, k + 1)

workers_done ==
    /\ integrate_workers.forked
    /\ \A i \in 1..Len(bodies) : integrate_workers.at[i] = "done"

\* The state of body i at the point its worker has reached, computed from
\* the body as it was when for_each started.
expected_at(i) ==
    IF integrate_workers.at[i] = "integrate_forces" THEN integrate_workers.start[i]
    ELSE IF integrate_workers.at[i] = "integrate_velocities"
    THEN integrate_forces(integrate_workers.start[i], dt)
    ELSE integrate_body(integrate_workers.start[i], dt)

\* C28: whatever the order and interleaving of the workers of integrate,
\* every body is at all times what its own worker has made of its state at
\* the start of integrate, independently of how far the other workers are;
\* when all workers have ended every body is integrate(dt) of its start
\* state.
C28_integrate_is_interleaving_independent ==
    integrate_workers.forked =>
        /\ Len(bodies) = Len(integrate_workers.start)
        /\ \A i \in 1..Len(bodies) : bodies[i] = expected_at(i)
        /\ workers_done =>
               bodies = [i \in 1..Len(bodies) |-> integrate_body(integrate_workers.start[i], dt)]

\* The worker of a later entity has ended, and has moved its body, while the
\* worker of an earlier entity with momentum has not started.
C28_witness ==
    /\ integrate_workers.forked
    /\ \E i, j \in 1..Len(bodies) :
        /\ i < j
        /\ integrate_workers.at[i] = "integrate_forces"
        /\ bodies[i].linear_momentum # VZero
        /\ integrate_workers.at[j] = "done"
        /\ bodies[j].current_transform # integrate_workers.start[j].current_transform

\* All workers have ended after running in an order other than the view's.
C28_witness_joined ==
    /\ workers_done
    /\ \E i \in 1..Len(bodies) :
           bodies[i].current_transform # integrate_workers.start[i].current_transform

(***************************************************************************)
(* Static bodies stay where they are.                                      *)
(***************************************************************************)
\* Body b has inverse mass 0 and inverse inertia 0.
immovable(b) == b.inverse_mass = Zero /\ b.inverse_inertia = Zero

\* C29: no step of update, and so no sequence of updates, changes the
\* translation or the orientation of the current transform of a body with
\* inverse mass 0 and inverse inertia 0, whatever forces, impulses and
\* position corrections it takes part in.
C29_static_bodies_stay ==
    [][\A i \in 1..Len(bodies) :
          immovable(bodies[i]) =>
              /\ bodies'[i].current_transform.translation
                     = bodies[i].current_transform.translation
              /\ bodies'[i].current_transform.rotation
                     = bodies[i].current_transform.rotation]_vars

\* The second update has returned for a static body that was given impulses
\* (it has momentum), was in a contact whose correction moved the other
\* body, and carries an end of a spring that was solved.
C29_witness ==
    /\ pc = "idle"
    /\ steps = MaxStaticSteps
    /\ \E i \in 1..Len(bodies) :
        /\ immovable(bodies[i])
        /\ bodies[i].linear_momentum # VZero
        /\ \E k \in 1..Len(contact_log) :
            /\ ~contact_log[k].solved.skipped
            /\ contact_log[k].solved.body_a = i
            /\ contact_log[k].momentum_a_after # contact_log[k].momentum_a_before
        /\ \E k \in 1..Len(correction_log) :
            /\ correction_log[k].body_a = i
            /\ correction_log[k].position_b_after # correction_log[k].position_b_before
        /\ \E c \in 1..Len(constraints) :
            /\ constraints[c].body_a = i
            /\ constraints[c].body_b # 0
            /\ constraints[c].solve_calls > 0

(***************************************************************************)
(* Divisors of the resolution and of the position correction.              *)
(***************************************************************************)
\* The divisor sum_inverse_mass of manifold m.
sum_inverse_mass(m) == RAdd(bodies[m.body_a].inverse_mass, bodies[m.body_b].inverse_mass)

\* C30: every manifold of the manifold list has bodies whose inverse masses
\* sum to more than 0 and has at least one contact, so that neither
\* 1 / contact_count in resolve_collisions nor the quotient by
\* sum_inverse_mass in correct_positions divides by zero: every momentum and
\* position the two phases write is finite.
C30_divisors_are_positive ==
    /\ \A n \in 1..Len(m_narrow_phase_manifolds) :
        /\ RGt(sum_inverse_mass(m_narrow_phase_manifolds[n]), Zero)
        /\ m_narrow_phase_manifolds[n].contact_count > 0
        /\ ~(is_static(bodies[m_narrow_phase_manifolds[n].body_a])
             /\ is_static(bodies[m_narrow_phase_manifolds[n].body_b]))
    /\ \A k \in 1..Len(contact_log) :
        /\ finite_vector(contact_log[k].momentum_a_after)
        /\ finite_vector(contact_log[k].momentum_b_after)
    /\ \A k \in 1..Len(correction_log) :
        /\ RGt(RAdd(correction_log[k].inverse_mass_a, correction_log[k].inverse_mass_b), Zero)
        /\ finite_vector(correction_log[k].position_a_after)
        /\ finite_vector(correction_log[k].position_b_after)

\* resolve_collisions and correct_positions have run on a manifold of a
\* static and a dynamic body, and the correction has moved the dynamic one.
C30_witness ==
    /\ phase_done("correct_positions")
    /\ \E k \in 1..Len(correction_log) :
        /\ correction_log[k].inverse_mass_a = Zero
        /\ RGt(correction_log[k].inverse_mass_b, Zero)
        /\ correction_log[k].position_b_after # correction_log[k].position_b_before
        /\ \E j \in 1..Len(contact_log) :
            /\ contact_log[j].manifold = correction_log[k].manifold
            /\ ~contact_log[j].solved.skipped

\* The registry holds two overlapping static bodies on one layer, and the
\* step has run without a manifold for them.
C30_witness_static_pair ==
    /\ phase_done("correct_positions")
    /\ Len(bodies) = 2
    /\ is_static(bodies[1]) /\ is_static(bodies[2])
    /\ bodies[1].collider.type = "plane" /\ bodies[2].collider.type = "sphere"
    /\ m_narrow_phase_manifolds = <<>>

====
